---- MODULE Spec2Model ----
(***************************************************************************)
(* A model of the animation core of the VUMeter class                      *)
(* (src/src/vumeter.js, and the older copy src/www/VUMeter.js).            *)
(*                                                                         *)
(* Numbers.  A JavaScript Number that holds a dB value is modelled as an   *)
(* integer count of 1/1000 dB (Unit), a time as integer milliseconds.      *)
(* With these units the auto-range step dt/1000 dB is exactly dt units.    *)
(* -Infinity, +Infinity and NaN are three values outside the integer range *)
(* used for dB values; the operators Lt, Le, MathMin, MathMax, Plus, Minus *)
(* and RatioTimes give them the IEEE-754 behaviour the code relies on.     *)
(***************************************************************************)
EXTENDS Integers, Sequences, FiniteSets, TLC

\* ------------------------------------------------------------------------
\* Number representation
\* ------------------------------------------------------------------------

\* units per dB (vumeter.js:721 divides milliseconds by 1000 to get dB)
Unit == 1000

\* the value -Infinity (vumeter.js:163)
NegInf == -2000000000

\* the value +Infinity (a division by zero at vumeter.js:156)
PosInf == 2000000000

\* the value NaN (Infinity * 0 or Infinity - Infinity at vumeter.js:156)
NaN == 2000000001

IsFinite(x) == x # NaN /\ x # NegInf /\ x # PosInf

\* JavaScript comparisons: every comparison with NaN is false
Lt(a, b) == a # NaN /\ b # NaN /\ a < b
Le(a, b) == a # NaN /\ b # NaN /\ a <= b
Gt(a, b) == Lt(b, a)
Ge(a, b) == Le(b, a)

\* Math.max / Math.min: NaN if either argument is NaN
MathMax(a, b) == IF a = NaN \/ b = NaN THEN NaN ELSE IF a >= b THEN a ELSE b
MathMin(a, b) == IF a = NaN \/ b = NaN THEN NaN ELSE IF a <= b THEN a ELSE b

\* unary minus
Neg(a) ==
    CASE a = NaN    -> NaN
      [] a = PosInf -> NegInf
      [] a = NegInf -> PosInf
      [] OTHER      -> 0 - a

\* a + b
Plus(a, b) ==
    CASE a = NaN \/ b = NaN            -> NaN
      [] a = PosInf /\ b = NegInf      -> NaN
      [] a = NegInf /\ b = PosInf      -> NaN
      [] a = PosInf \/ b = PosInf      -> PosInf
      [] a = NegInf \/ b = NegInf      -> NegInf
      [] OTHER                         -> a + b

\* a - b
Minus(a, b) == Plus(a, Neg(b))

\* Math.abs
MathAbs(a) ==
    CASE a = NaN    -> NaN
      [] a = NegInf -> PosInf
      [] a < 0      -> 0 - a
      [] OTHER      -> a

Sign(a) == IF a > 0 THEN 1 ELSE IF a < 0 THEN -1 ELSE 0

InfOfSign(sg) == IF sg > 0 THEN PosInf ELSE IF sg < 0 THEN NegInf ELSE NaN

\* floor(n / d) for finite integers, d # 0
FloorDiv(n, d) == IF d > 0 THEN n \div d ELSE (0 - n) \div (0 - d)

\* a / b as IEEE-754 decides its class: "nan", "inf" (with sign sg) or "fin"
\* (the finite quotient is kept exact as the pair num/den)
Ratio(a, b) ==
    CASE a = NaN \/ b = NaN
           -> [k |-> "nan", sg |-> 0, num |-> 0, den |-> 1]
      [] ~IsFinite(a) /\ ~IsFinite(b)
           -> [k |-> "nan", sg |-> 0, num |-> 0, den |-> 1]
      [] ~IsFinite(a)
           -> [k |-> "inf", sg |-> Sign(a) * (IF b < 0 THEN -1 ELSE 1),
               num |-> 0, den |-> 1]
      [] ~IsFinite(b)
           -> [k |-> "fin", sg |-> 0, num |-> 0, den |-> 1]
      [] b = 0 /\ a = 0
           -> [k |-> "nan", sg |-> 0, num |-> 0, den |-> 1]
      [] b = 0
           -> [k |-> "inf", sg |-> Sign(a), num |-> 0, den |-> 1]
      [] OTHER
           -> [k |-> "fin", sg |-> Sign(a) * Sign(b), num |-> a, den |-> b]

\* (a / b) * c, rounded down to a whole unit when finite
RatioTimes(a, b, c) ==
    LET r == Ratio(a, b) IN
    CASE r.k = "nan" \/ c = NaN        -> NaN
      [] r.k = "inf"                   -> InfOfSign(r.sg * Sign(c))
      [] ~IsFinite(c)                  -> InfOfSign(Sign(r.num) * Sign(r.den) * Sign(c))
      [] OTHER                         -> FloorDiv(r.num * c, r.den)

\* ------------------------------------------------------------------------
\* Math.exp and Math.log10 in fixed point
\* ------------------------------------------------------------------------

\* scale of a smoothing factor: factor 1.0 is FScale
FScale == 10 * Unit

\* scale of the series that computes Math.exp
EScale == Unit * Unit

\* number of terms of the exponential series that are summed
ExpOrder == 14

RECURSIVE ExpSeries(_, _, _, _, _)
\* sum over n >= 0 of (-dt/tau)^n / n!, scaled by EScale, for 0 <= dt <= 2*tau
ExpSeries(dt, tau, n, term, acc) ==
    IF n > ExpOrder THEN acc
    ELSE LET t == (term * dt) \div (tau * n)
         IN  ExpSeries(dt, tau, n + 1, t, IF n % 2 = 1 THEN acc - t ELSE acc + t)

RECURSIVE ExpNeg(_, _)
\* Math.exp(-dt / tau) scaled by FScale, for dt >= 0 and tau > 0
ExpNeg(dt, tau) ==
    IF dt > 2 * tau
    THEN LET h == ExpNeg(dt, 2 * tau) IN (h * h) \div FScale
    ELSE (ExpSeries(dt, tau, 1, EScale, EScale) + (EScale \div FScale) \div 2)
             \div (EScale \div FScale)

\* 1 - Math.exp(-dt / tau), scaled by FScale; NaN for 0/0 (dt = 0, tau = 0)
ExpFactor(dt, tau) ==
    CASE tau = 0 /\ dt = 0 -> NaN
      [] tau = 0           -> FScale
      [] OTHER             -> FScale - ExpNeg(dt, tau)

\* x * factor for a finite x and a factor scaled by FScale, rounded toward zero
TimesFactor(x, factor) ==
    CASE x = NaN \/ factor = NaN -> NaN
      [] ~IsFinite(x)            -> IF factor = 0 THEN NaN ELSE x
      [] x >= 0                  -> (x * factor) \div FScale
      [] OTHER                   -> 0 - (((0 - x) * factor) \div FScale)

\* ------------------------------------------------------------------------
\* Needle positions.  this._currentDb and this._peakVisualDb move by
\* diff * factor, a fraction of a unit when diff is small: a position is kept
\* as whole units db and a remainder frac in 1/FScale of a unit, the value
\* being db + frac / FScale with 0 <= frac < FScale (frac = 0 when db is not
\* finite).
\* ------------------------------------------------------------------------

Pos(db, frac) == [db |-> db, frac |-> frac]

\* p > x, p < x, p <= x, p >= x for a whole x
PosGt(p, x) == Gt(p.db, x) \/ (p.db = x /\ p.frac > 0)

PosLt(p, x) == Lt(p.db, x)

PosLe(p, x) == Lt(p.db, x) \/ (p.db = x /\ p.frac = 0 /\ x # NaN)

PosGe(p, x) == Ge(p.db, x)

\* Math.max(lo, Math.min(hi, p)) for whole lo and hi
PosClamp(lo, hi, p) ==
    IF p.frac = 0 THEN Pos(MathMax(lo, MathMin(hi, p.db)), 0)
    ELSE IF lo = NaN \/ hi = NaN THEN Pos(NaN, 0)
    ELSE IF Ge(p.db, hi) THEN Pos(MathMax(lo, hi), 0)
    ELSE IF Lt(p.db, lo) THEN Pos(lo, 0)
    ELSE p

\* Math.abs(target - p) < eps for whole target and eps
PosNear(p, target, eps) ==
    IF p.frac = 0 THEN Lt(MathAbs(Minus(target, p.db)), eps)
    ELSE IF ~IsFinite(target) THEN FALSE
    ELSE IF target - p.db > eps \/ p.db - target > eps THEN FALSE
    ELSE LET d == (target - p.db) * FScale - p.frac
         IN  (IF d < 0 THEN 0 - d ELSE d) < eps * FScale

\* p + (target - p) * factor, factor scaled by FScale: in 1/FScale of a unit
\* the step is (target - p.db) * factor - p.frac * factor / FScale
Approach(p, target, factor) ==
    IF ~IsFinite(p.db) \/ ~IsFinite(target) \/ factor = NaN
    THEN Pos(Plus(p.db, TimesFactor(Minus(target, p.db), factor)), 0)
    ELSE LET q == p.frac + (target - p.db) * factor - (p.frac * factor) \div FScale
         IN  Pos(p.db + FloorDiv(q, FScale), q - FScale * FloorDiv(q, FScale))

\* binary digits of the fractional part of a base-2 logarithm
LogBits == 12

\* the scale of a base-2 logarithm
LogOne == 2 ^ LogBits

\* 20 * log10(2) = 6.0206 dB: the whole units, and the tenths of a unit
DbPerOctave == 6020
DbPerOctaveTenths == 6

RECURSIVE Log2Frac(_, _, _)
\* fractional part of log2(m / LogOne), 1 <= m / LogOne < 2, scaled by LogOne
Log2Frac(m, bit, acc) ==
    IF bit > LogBits THEN acc
    ELSE LET sq == (m * m) \div LogOne
             w  == LogOne \div (2 ^ bit)
         IN  IF sq >= 2 * LogOne
             THEN Log2Frac(sq \div 2, bit + 1, acc + w)
             ELSE Log2Frac(sq, bit + 1, acc)

RECURSIVE Log2Fix(_, _)
\* log2(num / den) scaled by LogOne, for num > 0 and den > 0
Log2Fix(num, den) ==
    IF num >= 2 * den THEN LogOne + Log2Fix(num, 2 * den)
    ELSE IF num < den THEN Log2Fix(2 * num, den) - LogOne
    ELSE Log2Frac((num * LogOne) \div den, 1, 0)

\* 20 * Math.log10(amp) for an amplitude amp > 0 given in 1/Unit
AmpToDb(amp) ==
    LET x == Log2Fix(amp, Unit)
    IN  FloorDiv(x * DbPerOctave + FloorDiv(x * DbPerOctaveTenths, 10) + LogOne \div 2,
                 LogOne)

\* ------------------------------------------------------------------------
\* Program constants
\* ------------------------------------------------------------------------

\* this._lastTime = null, this._rafId = null
Null == -1

\* cap of dt in _animate, in ms
DtCap == 100

\* |diff| < 0.005 snaps the needle to the target
Deadband == 5

\* the target may exceed dbMax by 1 dB
TargetOver == 1000

\* the needle may exceed dbMax by 0.5 dB
NeedleOver == 500

\* the peak needle is reset once it is within 0.05 dB of dbMin
PeakEps == 50

\* the scale is rebuilt once a bound has drifted 1 dB from the last rebuild
RebuildDrift == 1000

\* VUMeter.DEFAULTS
DEFAULTS ==
    [ dbMin           |-> -20 * Unit,
      dbMax           |-> 3 * Unit,
      noiseFloor      |-> -20 * Unit,
      ballistics      |-> TRUE,
      attackTime      |-> 300,
      releaseTime     |-> 300,
      onClip          |-> "null",
      onClipRelease   |-> "null",
      clipThreshold   |-> 0,
      autoRange       |-> FALSE,
      autoRangeWindow |-> 30,
      autoRangeMargin |-> 2 * Unit,
      showPeak        |-> FALSE,
      peakAttackTime  |-> 50,
      peakHoldTime    |-> 2000,
      peakDecayTime   |-> 1500,
      label           |-> "VU",
      brand           |-> "MODEL 300",
      scalePreset     |-> "null" ]

\* Object.assign(target, src) for an options record src (a partial record)
Assign(target, src) ==
    [k \in DOMAIN target |-> IF k \in DOMAIN src THEN src[k] ELSE target[k]]

\* ------------------------------------------------------------------------
\* The VUMeter instance and the host's scheduler
\*
\* An instance is a record s.  Besides the fields of the class it holds what
\* the host keeps for it: due and fresh count the pending frame callbacks
\* (registered before, resp. at, the current time: a callback never runs at
\* the time it was registered), notified names the callback the current or
\* latest frame has called ("clip": onClip, "release": onClipRelease), rafId says whether this._rafId is null, names
\* a pending callback ("live") or one that has run ("stale"); scaleDbMin and
\* scaleDbMax are the bounds the scale group was last drawn for; hung says
\* that a call never returned (an unbounded loop in _buildDefaultScale).
\* ------------------------------------------------------------------------

\* requestAnimationFrame(ts => this._animate(ts)) assigned to this._rafId
requestFrame(s) == [s EXCEPT !.fresh = @ + 1, !.rafId = "live"]

\* cancelAnimationFrame(this._rafId): the callback named by _rafId, if it is
\* still pending, is the one registered last
cancelFrame(s) ==
    IF s.rafId # "live" THEN s
    ELSE IF s.fresh > 0 THEN [s EXCEPT !.fresh = @ - 1]
    ELSE [s EXCEPT !.due = @ - 1]

\* the tick loop of the scale, for (d = Math.ceil(dbMin); d <= dbMax; d++)
\* (d += 6 for the S-meter preset, d = dbMin in the www copy): d <= dbMax is
\* false at once when a bound is NaN; otherwise the loop never ends when d
\* cannot advance (dbMin = -Infinity) or cannot pass dbMax (+Infinity)
ScaleLoopEnds(dbMin, dbMax) ==
    \/ dbMin = NaN \/ dbMax = NaN
    \/ dbMin # NegInf /\ dbMax # PosInf

\* _rebuildScale: the scale group is emptied and drawn for the current bounds
rebuildScale(s) ==
    IF ScaleLoopEnds(s.options.dbMin, s.options.dbMax)
    THEN [s EXCEPT !.scaleDbMin = s.options.dbMin, !.scaleDbMax = s.options.dbMax]
    ELSE [s EXCEPT !.hung = TRUE]

\* new VUMeter(container, options): _build() draws the scale before the peak
\* needle is made and before _startAnimation() registers the first callback;
\* when the tick loop cannot end the constructor never returns
construct(options) ==
    LET o     == Assign(DEFAULTS, options)
        built == ScaleLoopEnds(o.dbMin, o.dbMax)
    IN
    [ options            |-> o,
      initDbMin          |-> o.dbMin,
      initDbMax          |-> o.dbMax,
      targetDb           |-> o.dbMin,
      currentDb          |-> o.dbMin,
      currentFrac        |-> 0,
      clipping           |-> FALSE,
      paused             |-> FALSE,
      rafId              |-> IF built THEN "live" ELSE "null",
      lastTime           |-> Null,
      rangeSamples       |-> << >>,
      autoRangeTargetMin |-> o.dbMin,
      autoRangeTargetMax |-> o.dbMax,
      lastRebuiltDbMin   |-> o.dbMin,
      lastRebuiltDbMax   |-> o.dbMax,
      peakDb             |-> o.dbMin,
      peakVisualDb       |-> o.dbMin,
      peakVisualFrac     |-> 0,
      peakHoldUntil      |-> 0,
      peakDecaying       |-> FALSE,
      svg                |-> TRUE,
      peakNeedle         |-> o.showPeak /\ built,
      scaleDbMin         |-> o.dbMin,
      scaleDbMax         |-> o.dbMax,
      due                |-> 0,
      fresh              |-> IF built THEN 1 ELSE 0,
      notified           |-> "none",
      hung               |-> ~built ]

\* Math.max(lo, Math.min(hi, x))
Clamp(lo, hi, x) == MathMax(lo, MathMin(hi, x))

\* this._currentDb and this._peakVisualDb as positions
needlePos(s) == Pos(s.currentDb, s.currentFrac)

peakPos(s) == Pos(s.peakVisualDb, s.peakVisualFrac)

\* setRange(dbMin, dbMax)
setRange(s, dbMin, dbMax) ==
    LET c  == PosClamp(dbMin, dbMax, needlePos(s))
        s1 == [s EXCEPT !.options.dbMin = dbMin,
                        !.options.dbMax = dbMax,
                        !.targetDb  = Clamp(dbMin, dbMax, s.targetDb),
                        !.currentDb = c.db,
                        !.currentFrac = c.frac]
        s2 == rebuildScale(s1)
    IN  IF s2.hung THEN s2
        ELSE [s2 EXCEPT !.lastRebuiltDbMin = dbMin, !.lastRebuiltDbMax = dbMax]

\* a variant of resetRange that keeps the contraction targets
resetRange_KeepTargets(s) ==
    LET s1 == [s EXCEPT !.rangeSamples  = << >>,
                        !.options.dbMin = s.initDbMin,
                        !.options.dbMax = s.initDbMax]
        s2 == rebuildScale(s1)
    IN  IF s2.hung THEN s2
        ELSE [s2 EXCEPT !.lastRebuiltDbMin = s.initDbMin,
                        !.lastRebuiltDbMax = s.initDbMax]

\* resetRange()
resetRange(s) ==
    LET s1 == [s EXCEPT !.rangeSamples       = << >>,
                        !.autoRangeTargetMin = s.initDbMin,
                        !.autoRangeTargetMax = s.initDbMax,
                        !.options.dbMin      = s.initDbMin,
                        !.options.dbMax      = s.initDbMax]
        s2 == rebuildScale(s1)
    IN  IF s2.hung THEN s2
        ELSE [s2 EXCEPT !.lastRebuiltDbMin = s.initDbMin,
                        !.lastRebuiltDbMax = s.initDbMax]

RECURSIVE SeqMin(_)
\* Math.min(...dbs) of a non-empty list
SeqMin(dbs) ==
    IF Len(dbs) = 1 THEN dbs[1] ELSE MathMin(dbs[1], SeqMin(Tail(dbs)))

RECURSIVE SeqMax(_)
\* Math.max(...dbs) of a non-empty list
SeqMax(dbs) ==
    IF Len(dbs) = 1 THEN dbs[1] ELSE MathMax(dbs[1], SeqMax(Tail(dbs)))

\* the samples of the window: the new one appended, the old ones dropped
WindowSamples(s, db, now) ==
    LET cutoff == now - s.options.autoRangeWindow * 1000
        keep(x) == x.t >= cutoff
    IN  SelectSeq(Append(s.rangeSamples, [db |-> db, t |-> now]), keep)

\* a variant of expandRange that leaves the expansion to the frames
expandRange_Deferred(s, newMin, newMax) == s

\* setValue(db): immediate expansion, "only expand, never contract here"
expandRange(s, newMin, newMax) ==
    LET lower     == Lt(newMin, s.options.dbMin)
        higher    == Gt(newMax, s.options.dbMax)
        expandMin == IF lower  THEN newMin ELSE s.options.dbMin
        expandMax == IF higher THEN newMax ELSE s.options.dbMax
    IN  IF lower \/ higher THEN setRange(s, expandMin, expandMax) ELSE s

\* the auto-range block of setValue(db)
autoRangeSample(s, db, now) ==
    LET samples == WindowSamples(s, db, now)
        s1      == [s EXCEPT !.rangeSamples = samples]
    IN  IF Len(samples) = 0 THEN s1
        ELSE
          LET dbs         == [i \in 1..Len(samples) |-> samples[i].db]
              observedMin == SeqMin(dbs)
              observedMax == SeqMax(dbs)
              newMin      == Minus(observedMin, s.options.autoRangeMargin)
              newMax      == Plus(observedMax, s.options.autoRangeMargin)
              s2          == [s1 EXCEPT !.autoRangeTargetMin = newMin,
                                        !.autoRangeTargetMax = newMax]
          IN  expandRange(s2, newMin, newMax)

\* a variant of MapDb that pins silence at noiseFloor instead of dbMin
MapDb_PinAtFloor(db, dbMin, dbMax, noiseFloor) ==
    IF Le(db, noiseFloor) THEN noiseFloor
    ELSE Plus(dbMin, RatioTimes(Minus(db, noiseFloor),
                                Minus(dbMax, noiseFloor),
                                Minus(dbMax, dbMin)))

\* a variant of MapDb that interpolates downward from dbMax
MapDb_Downward(db, dbMin, dbMax, noiseFloor) ==
    IF Le(db, noiseFloor) THEN dbMin
    ELSE Minus(dbMax, RatioTimes(Minus(db, noiseFloor),
                                 Minus(dbMax, noiseFloor),
                                 Minus(dbMax, dbMin)))

\* a variant of MapDb that leaves out the dbMin offset of the interpolation
MapDb_NoOffset(db, dbMin, dbMax, noiseFloor) ==
    IF Le(db, noiseFloor) THEN dbMin
    ELSE RatioTimes(Minus(db, noiseFloor),
                    Minus(dbMax, noiseFloor),
                    Minus(dbMax, dbMin))

\* the Range Mapper of setValue: [noiseFloor, dbMax] -> [dbMin, dbMax]
MapDb(db, dbMin, dbMax, noiseFloor) ==
    IF Le(db, noiseFloor) THEN dbMin
    ELSE Plus(dbMin, RatioTimes(Minus(db, noiseFloor),
                                Minus(dbMax, noiseFloor),
                                Minus(dbMax, dbMin)))

\* the mapping block of setValue(db)
mapSample(s, db) ==
    LET o == s.options
        mapped == MapDb(db, o.dbMin, o.dbMax, o.noiseFloor)
    IN  [s EXCEPT !.targetDb = Clamp(o.dbMin, Plus(o.dbMax, TargetOver), mapped)]

\* setValue(db), called at time now
setValue(s, db, now) ==
    LET s1 == IF s.options.autoRange THEN autoRangeSample(s, db, now) ELSE s
    IN  IF s1.hung THEN s1 ELSE mapSample(s1, db)

\* a variant of setAmplitude that converts as a power ratio, 10 * log10(amp)
setAmplitude_Power(s, amp, now) ==
    IF amp <= 0 THEN setValue(s, NegInf, now)
    ELSE setValue(s, AmpToDb(amp) \div 2, now)

\* setAmplitude(amp), amp in 1/Unit
setAmplitude(s, amp, now) ==
    IF amp <= 0 THEN setValue(s, NegInf, now)
    ELSE setValue(s, AmpToDb(amp), now)

\* getValue(): this._currentDb, as a position
getValue(s) == needlePos(s)

\* setOptions(opts)
setOptions(s, opts) ==
    LET needsRebuild == \/ "clipThreshold" \in DOMAIN opts
                        \/ "scalePreset" \in DOMAIN opts
                        \/ "label" \in DOMAIN opts
                        \/ "brand" \in DOMAIN opts
        s1 == [s EXCEPT !.options = Assign(s.options, opts)]
    IN  IF needsRebuild THEN rebuildScale(s1) ELSE s1

\* pause()
pause(s) ==
    LET s1 == IF s.rafId # "null" THEN [cancelFrame(s) EXCEPT !.rafId = "null"] ELSE s
    IN  [s1 EXCEPT !.paused = TRUE]

\* a variant of resume that keeps the elapsed-time baseline
resume_KeepBaseline(s) ==
    IF s.paused THEN requestFrame([s EXCEPT !.paused = FALSE]) ELSE s

\* resume()
resume(s) ==
    IF s.paused
    THEN requestFrame([s EXCEPT !.paused = FALSE, !.lastTime = Null])
    ELSE s

\* destroy()
destroy(s) == [pause(s) EXCEPT !.svg = FALSE]

\* a callback supplied as options.onClip / options.onClipRelease: "null" is no
\* function; the others are functions that call back into the instance
CallbackKinds == {"null", "noop", "pause", "resume", "pauseResume", "destroy"}

\* the call options.onClip() / options.onClipRelease()
runCallback(s, kind) ==
    CASE kind = "pause"       -> pause(s)
      [] kind = "resume"      -> resume(s)
      [] kind = "pauseResume" -> resume(pause(s))
      [] kind = "destroy"     -> destroy(s)
      [] OTHER                -> s

\* the comparison of _updateClipState(db)
IsClipping(db, clipThreshold) == PosGt(db, clipThreshold)

\* a variant of _updateClipState without the early return on an unchanged
\* comparison
updateClipState_EveryFrame(s, db) ==
    LET clipping == IsClipping(db, s.options.clipThreshold)
        s1       == [s EXCEPT !.clipping = clipping]
    IN  IF clipping
        THEN runCallback([s1 EXCEPT !.notified =
                             IF s.options.onClip # "null" THEN "clip" ELSE @],
                         s.options.onClip)
        ELSE runCallback([s1 EXCEPT !.notified =
                             IF s.options.onClipRelease # "null" THEN "release" ELSE @],
                         s.options.onClipRelease)

\* _updateClipState(db); notified records the callback that was called
updateClipState(s, db) ==
    LET clipping == IsClipping(db, s.options.clipThreshold)
        s1       == [s EXCEPT !.clipping = clipping]
    IN  IF clipping = s.clipping THEN s
        ELSE IF clipping
        THEN runCallback([s1 EXCEPT !.notified =
                             IF s.options.onClip # "null" THEN "clip" ELSE @],
                         s.options.onClip)
        ELSE runCallback([s1 EXCEPT !.notified =
                             IF s.options.onClipRelease # "null" THEN "release" ELSE @],
                         s.options.onClipRelease)

\* a variant of frameDt without the 100 ms cap
frameDt_NoCap(s, timestamp) ==
    IF s.lastTime = Null THEN 0 ELSE timestamp - s.lastTime

\* the dt of _animate(timestamp)
frameDt(s, timestamp) ==
    LET lastTime == IF s.lastTime = Null THEN timestamp ELSE s.lastTime
    IN  IF timestamp - lastTime < DtCap THEN timestamp - lastTime ELSE DtCap

\* _animate: auto-range contraction toward the stored targets, and the
\* rebuild of the scale once a bound has drifted
contractRange(s, dt) ==
    LET o         == s.options
        maxChange == dt
        newMin    == IF Lt(o.dbMin, s.autoRangeTargetMin)
                     THEN MathMin(Plus(o.dbMin, maxChange), s.autoRangeTargetMin)
                     ELSE o.dbMin
        newMax    == IF Gt(o.dbMax, s.autoRangeTargetMax)
                     THEN MathMax(Minus(o.dbMax, maxChange), s.autoRangeTargetMax)
                     ELSE o.dbMax
        s1        == [s EXCEPT !.options.dbMin = newMin, !.options.dbMax = newMax]
        drifted   == \/ Ge(MathAbs(Minus(newMin, s.lastRebuiltDbMin)), RebuildDrift)
                     \/ Ge(MathAbs(Minus(newMax, s.lastRebuiltDbMax)), RebuildDrift)
        s2        == rebuildScale(s1)
    IN  IF ~drifted THEN s1
        ELSE IF s2.hung THEN s2
        ELSE [s2 EXCEPT !.lastRebuiltDbMin = newMin, !.lastRebuiltDbMax = newMax]

\* a variant of moveNeedle that smooths whether or not ballistics is enabled
moveNeedle_AlwaysSmooth(s, dt) ==
    LET o      == s.options
        p      == needlePos(s)
        diff   == Minus(s.targetDb, s.currentDb)
        tau    == IF Gt(diff, 0) THEN o.attackTime ELSE o.releaseTime
        moved  == IF PosNear(p, s.targetDb, Deadband) THEN Pos(s.targetDb, 0)
                  ELSE Approach(p, s.targetDb, ExpFactor(dt, tau))
        pinned == PosClamp(o.dbMin, Plus(o.dbMax, NeedleOver), moved)
    IN  [s EXCEPT !.currentDb = pinned.db, !.currentFrac = pinned.frac]

\* a variant of moveNeedle that moves the needle by the whole difference and
\* the smoothing step: diff * (2 - Math.exp(-dt / tau))
moveNeedle_Overshoot(s, dt) ==
    LET o      == s.options
        p      == needlePos(s)
        diff   == Minus(s.targetDb, s.currentDb)
        tau    == IF Gt(diff, 0) THEN o.attackTime ELSE o.releaseTime
        moved  == IF ~o.ballistics THEN Pos(s.targetDb, 0)
                  ELSE IF PosNear(p, s.targetDb, Deadband) THEN Pos(s.targetDb, 0)
                  ELSE Approach(p, s.targetDb, Plus(FScale, ExpFactor(dt, tau)))
        pinned == PosClamp(o.dbMin, Plus(o.dbMax, NeedleOver), moved)
    IN  [s EXCEPT !.currentDb = pinned.db, !.currentFrac = pinned.frac]

\* a variant of moveNeedle without the deadband snap
moveNeedle_NoSnap(s, dt) ==
    LET o      == s.options
        p      == needlePos(s)
        diff   == Minus(s.targetDb, s.currentDb)
        tau    == IF Gt(diff, 0) THEN o.attackTime ELSE o.releaseTime
        moved  == IF ~o.ballistics THEN Pos(s.targetDb, 0)
                  ELSE Approach(p, s.targetDb, ExpFactor(dt, tau))
        pinned == PosClamp(o.dbMin, Plus(o.dbMax, NeedleOver), moved)
    IN  [s EXCEPT !.currentDb = pinned.db, !.currentFrac = pinned.frac]

\* _animate: main needle ballistics, then the pin to the scale limits
moveNeedle(s, dt) ==
    LET o      == s.options
        p      == needlePos(s)
        diff   == Minus(s.targetDb, s.currentDb)
        tau    == IF Gt(diff, 0) THEN o.attackTime ELSE o.releaseTime
        moved  == IF ~o.ballistics THEN Pos(s.targetDb, 0)
                  ELSE IF PosNear(p, s.targetDb, Deadband) THEN Pos(s.targetDb, 0)
                  ELSE Approach(p, s.targetDb, ExpFactor(dt, tau))
        pinned == PosClamp(o.dbMin, Plus(o.dbMax, NeedleOver), moved)
    IN  [s EXCEPT !.currentDb = pinned.db, !.currentFrac = pinned.frac]

\* a variant of movePeak in which the hold period never expires
movePeak_NoExpiry(s, dt, now, dbMin) ==
    LET o        == s.options
        captured == Gt(s.targetDb, s.peakDb)
        peakDb   == IF captured THEN s.targetDb ELSE s.peakDb
        until    == IF captured THEN now + o.peakHoldTime ELSE s.peakHoldUntil
        decaying == IF captured THEN FALSE ELSE s.peakDecaying
        fallen   == Approach(peakPos(s), dbMin, ExpFactor(dt, o.peakDecayTime))
        risen    == Approach(peakPos(s), peakDb, ExpFactor(dt, o.peakAttackTime))
        visual   == IF decaying THEN fallen ELSE risen
    IN  IF ~(o.showPeak /\ s.peakNeedle) THEN s
        ELSE IF decaying /\ PosLe(fallen, Plus(dbMin, PeakEps))
        THEN [s EXCEPT !.peakDb = dbMin, !.peakVisualDb = dbMin,
                       !.peakVisualFrac = 0,
                       !.peakDecaying = FALSE, !.peakHoldUntil = 0]
        ELSE [s EXCEPT !.peakDb = peakDb, !.peakHoldUntil = until,
                       !.peakDecaying = decaying,
                       !.peakVisualDb = visual.db,
                       !.peakVisualFrac = visual.frac]

\* a variant of movePeak whose reset leaves the decaying flag set
movePeak_ResetKeepsDecaying(s, dt, now, dbMin) ==
    LET o        == s.options
        captured == Gt(s.targetDb, s.peakDb)
        peakDb   == IF captured THEN s.targetDb ELSE s.peakDb
        until    == IF captured THEN now + o.peakHoldTime ELSE s.peakHoldUntil
        decay0   == IF captured THEN FALSE ELSE s.peakDecaying
        decaying == decay0 \/ (until > 0 /\ now >= until)
        fallen   == Approach(peakPos(s), dbMin, ExpFactor(dt, o.peakDecayTime))
        risen    == Approach(peakPos(s), peakDb, ExpFactor(dt, o.peakAttackTime))
        visual   == IF decaying THEN fallen ELSE risen
    IN  IF ~(o.showPeak /\ s.peakNeedle) THEN s
        ELSE IF decaying /\ PosLe(fallen, Plus(dbMin, PeakEps))
        THEN [s EXCEPT !.peakDb = dbMin, !.peakVisualDb = dbMin,
                       !.peakVisualFrac = 0,
                       !.peakDecaying = TRUE, !.peakHoldUntil = 0]
        ELSE [s EXCEPT !.peakDb = peakDb, !.peakHoldUntil = until,
                       !.peakDecaying = decaying,
                       !.peakVisualDb = visual.db,
                       !.peakVisualFrac = visual.frac]

\* a variant of movePeak in which a new peak does not interrupt a decay
movePeak_NoInterrupt(s, dt, now, dbMin) ==
    LET o        == s.options
        captured == Gt(s.targetDb, s.peakDb)
        peakDb   == IF captured THEN s.targetDb ELSE s.peakDb
        until    == IF captured THEN now + o.peakHoldTime ELSE s.peakHoldUntil
        decay0   == s.peakDecaying
        decaying == decay0 \/ (until > 0 /\ now >= until)
        fallen   == Approach(peakPos(s), dbMin, ExpFactor(dt, o.peakDecayTime))
        risen    == Approach(peakPos(s), peakDb, ExpFactor(dt, o.peakAttackTime))
        visual   == IF decaying THEN fallen ELSE risen
    IN  IF ~(o.showPeak /\ s.peakNeedle) THEN s
        ELSE IF decaying /\ PosLe(fallen, Plus(dbMin, PeakEps))
        THEN [s EXCEPT !.peakDb = dbMin, !.peakVisualDb = dbMin,
                       !.peakVisualFrac = 0,
                       !.peakDecaying = FALSE, !.peakHoldUntil = 0]
        ELSE [s EXCEPT !.peakDb = peakDb, !.peakHoldUntil = until,
                       !.peakDecaying = decaying,
                       !.peakVisualDb = visual.db,
                       !.peakVisualFrac = visual.frac]

\* _animate: the peak hold needle; dbMin is the bound read before the clip
\* callbacks ran
movePeak(s, dt, now, dbMin) ==
    LET o        == s.options
        captured == Gt(s.targetDb, s.peakDb)
        peakDb   == IF captured THEN s.targetDb ELSE s.peakDb
        until    == IF captured THEN now + o.peakHoldTime ELSE s.peakHoldUntil
        decay0   == IF captured THEN FALSE ELSE s.peakDecaying
        decaying == decay0 \/ (until > 0 /\ now >= until)
        fallen   == Approach(peakPos(s), dbMin, ExpFactor(dt, o.peakDecayTime))
        risen    == Approach(peakPos(s), peakDb, ExpFactor(dt, o.peakAttackTime))
        visual   == IF decaying THEN fallen ELSE risen
    IN  IF ~(o.showPeak /\ s.peakNeedle) THEN s
        ELSE IF decaying /\ PosLe(fallen, Plus(dbMin, PeakEps))
        THEN [s EXCEPT !.peakDb = dbMin, !.peakVisualDb = dbMin,
                       !.peakVisualFrac = 0,
                       !.peakDecaying = FALSE, !.peakHoldUntil = 0]
        ELSE [s EXCEPT !.peakDb = peakDb, !.peakHoldUntil = until,
                       !.peakDecaying = decaying,
                       !.peakVisualDb = visual.db,
                       !.peakVisualFrac = visual.frac]

\* _animate(timestamp), run at time now (Date.now())
animate(s, timestamp, now) ==
    LET dt == frameDt(s, timestamp)
        s1 == [s EXCEPT !.lastTime = timestamp, !.notified = "none"]
        s2 == IF s1.options.autoRange THEN contractRange(s1, dt) ELSE s1
        s3 == moveNeedle(s2, dt)
        s4 == updateClipState(s3, needlePos(s3))
        s5 == movePeak(s4, dt, now, s3.options.dbMin)
    IN  IF s2.hung THEN s2 ELSE requestFrame(s5)

\* the host runs one pending frame callback: the callbacks run in the order
\* they were registered, so the one this._rafId names runs last
runFrameCallback(s, timestamp, now) ==
    LET named == s.rafId = "live" /\ s.fresh = 0 /\ s.due = 1
        s1    == [s EXCEPT !.due = @ - 1,
                           !.rafId = IF named THEN "stale" ELSE @]
    IN  animate(s1, timestamp, now)

\* ------------------------------------------------------------------------
\* The older copy of the class, src/www/VUMeter.js: no auto-range, no peak
\* needle, no clipThreshold option.  pause, resume and destroy are the same
\* code as above.
\* ------------------------------------------------------------------------

\* VUMeter.DEFAULTS of the www copy
WWW_DEFAULTS ==
    [ dbMin         |-> -20 * Unit,
      dbMax         |-> 3 * Unit,
      noiseFloor    |-> -20 * Unit,
      ballistics    |-> TRUE,
      attackTime    |-> 300,
      releaseTime   |-> 300,
      label         |-> "VU",
      brand         |-> "MODEL 300",
      onClip        |-> "null",
      onClipRelease |-> "null" ]

\* Object.assign(target, src) where src may bring keys target does not have
AssignNew(target, src) ==
    [k \in DOMAIN target \cup DOMAIN src |->
        IF k \in DOMAIN src THEN src[k] ELSE target[k]]

\* new VUMeter(container, options), www copy: _build() draws the scale
\* before _startAnimation() registers the first callback; when the tick loop
\* cannot end the constructor never returns
wwwConstruct(options) ==
    LET o     == AssignNew(WWW_DEFAULTS, options)
        built == ScaleLoopEnds(o.dbMin, o.dbMax)
    IN
    [ options   |-> o,
      targetDb  |-> o.dbMin,
      currentDb |-> o.dbMin,
      currentFrac |-> 0,
      clipping  |-> FALSE,
      paused    |-> FALSE,
      rafId     |-> IF built THEN "live" ELSE "null",
      lastTime  |-> Null,
      svg       |-> TRUE,
      due       |-> 0,
      fresh     |-> IF built THEN 1 ELSE 0,
      notified  |-> "none",
      hung      |-> ~built ]

\* setValue(db), www copy
wwwSetValue(s, db) ==
    LET o == s.options
        mapped == MapDb(db, o.dbMin, o.dbMax, o.noiseFloor)
    IN  [s EXCEPT !.targetDb = Clamp(o.dbMin, Plus(o.dbMax, TargetOver), mapped)]

\* setAmplitude(amp), www copy, amp in 1/Unit
wwwSetAmplitude(s, amp) ==
    IF amp <= 0 THEN wwwSetValue(s, NegInf)
    ELSE wwwSetValue(s, AmpToDb(amp))

\* setOptions(opts), www copy
wwwSetOptions(s, opts) == [s EXCEPT !.options = AssignNew(s.options, opts)]

\* a variant of wwwIsClipping that counts 0 dB as clipping
wwwIsClipping_AtOrAbove(db) == PosGe(db, 0)

\* the comparison of _updateClipState(db), www copy: db > 0
wwwIsClipping(db) == PosGt(db, 0)

\* _updateClipState(db), www copy
wwwUpdateClipState(s, db) ==
    LET clipping == wwwIsClipping(db)
        s1       == [s EXCEPT !.clipping = clipping]
    IN  IF clipping = s.clipping THEN s
        ELSE IF clipping
        THEN runCallback([s1 EXCEPT !.notified =
                             IF s.options.onClip # "null" THEN "clip" ELSE @],
                         s.options.onClip)
        ELSE runCallback([s1 EXCEPT !.notified =
                             IF s.options.onClipRelease # "null" THEN "release" ELSE @],
                         s.options.onClipRelease)

\* _animate: ballistics and pin to the scale limits, www copy
wwwMoveNeedle(s, dt) ==
    LET o      == s.options
        p      == needlePos(s)
        diff   == Minus(s.targetDb, s.currentDb)
        tau    == IF Gt(diff, 0) THEN o.attackTime ELSE o.releaseTime
        moved  == IF ~o.ballistics THEN Pos(s.targetDb, 0)
                  ELSE IF PosNear(p, s.targetDb, Deadband) THEN Pos(s.targetDb, 0)
                  ELSE Approach(p, s.targetDb, ExpFactor(dt, tau))
        pinned == PosClamp(o.dbMin, Plus(o.dbMax, NeedleOver), moved)
    IN  [s EXCEPT !.currentDb = pinned.db, !.currentFrac = pinned.frac]

\* _animate(timestamp), www copy
wwwAnimate(s, timestamp) ==
    LET dt == frameDt(s, timestamp)
        s1 == wwwMoveNeedle([s EXCEPT !.lastTime = timestamp, !.notified = "none"], dt)
    IN  requestFrame(wwwUpdateClipState(s1, needlePos(s1)))

\* ------------------------------------------------------------------------
\* State and steps
\*
\* vu is an instance of src/src/vumeter.js, www an instance of
\* src/www/VUMeter.js, clock the time in ms (Date.now() and the frame
\* timestamps advance together).  last records what the steps did: the
\* operation taken last, its raw argument in dB (setValue, setAmplitude) and
\* the amplitude passed (amp, setAmplitude), for a frame the dt it used and the clip notification it sent; note is the notification sent
\* most recently, resumed says that resume() restarted the loop and no frame
\* of vu has started since, prevFrame is the time of the frame of vu run last
\* (Null: none); for a frame of vu, first says that it is the first one after
\* a resume() and gap is the time since the frame before it (0: there was
\* none); sample is the call that supplied the most recent sample ("none": no
\* sample yet) and, with the peak needle on, seen is the highest target a
\* sample has produced since the peak tracker was last reset; interrupted
\* says that the frame found the peak tracker decaying and a target above the
\* held peak, snapped that it found ballistics on and the needle off the
\* target by less than the deadband; idleMin is the displayMin the peak
\* tracker was last reset to (at construction or by a completed decay); apart
\* says that vu and www were called together at a moment when they had not
\* run the same frames; lead is the number of frame callbacks vu has run at
\* the current time less the number www has run, and uneven says that time
\* has passed with lead other than 0, so that one of them has run a frame
\* the other never will.
\* ------------------------------------------------------------------------

VARIABLES vu, www, clock, last

vars == <<vu, www, clock, last>>

\* the largest time the model runs to, in ms
MaxClock == 200

\* the largest number of samples kept in the auto-range window
MaxSamples == 2

\* the record of an API call
Call(op, raw) ==
    [last EXCEPT !.op = op, !.raw = raw, !.amp = 0, !.dt = 0, !.event = "none",
                 !.first = FALSE, !.gap = 0, !.interrupted = FALSE,
                 !.snapped = FALSE,
                 !.lead = IF op = "tick" THEN 0 ELSE @,
                 !.uneven = IF op = "tick" THEN @ \/ last.lead # 0 ELSE @,
                 !.sample = IF op \in {"setValue", "setAmplitude"} THEN op ELSE @,
                 !.seen = IF op \in {"setValue", "setAmplitude"} /\ vu.options.showPeak
                          THEN MathMax(@, vu'.targetDb) ELSE @]

\* the callback a frame called: the value of options.onClip / onClipRelease
Called(s, event) ==
    CASE event = "clip"    -> s.options.onClip
      [] event = "release" -> s.options.onClipRelease
      [] OTHER             -> "null"

\* _animate(timestamp) run in state s at time now: whether the peak block
\* runs and takes its branch "decay complete", which resets the peak tracker
animateResetsPeak(s, timestamp, now) ==
    LET dt       == frameDt(s, timestamp)
        s1       == [s EXCEPT !.lastTime = timestamp, !.notified = "none"]
        s2       == IF s1.options.autoRange THEN contractRange(s1, dt) ELSE s1
        s3       == moveNeedle(s2, dt)
        s4       == updateClipState(s3, needlePos(s3))
        o        == s4.options
        dbMin    == s3.options.dbMin
        captured == Gt(s4.targetDb, s4.peakDb)
        until    == IF captured THEN now + o.peakHoldTime ELSE s4.peakHoldUntil
        decay0   == IF captured THEN FALSE ELSE s4.peakDecaying
        decaying == decay0 \/ (until > 0 /\ now >= until)
        fallen   == Approach(peakPos(s4), dbMin, ExpFactor(dt, o.peakDecayTime))
    IN  /\ ~s2.hung
        /\ o.showPeak /\ s4.peakNeedle
        /\ decaying /\ PosLe(fallen, Plus(dbMin, PeakEps))

\* the record of a frame that started in state s, used dt and called event
Ran(op, s, dt, event) ==
    [ op        |-> op,
      raw       |-> 0,
      amp       |-> 0,
      dt        |-> dt,
      event     |-> event,
      note      |-> IF event = "none" THEN last.note ELSE event,
      resumed   |-> IF op = "frame"
                    THEN \/ Called(s, event) = "pauseResume"
                         \/ Called(s, event) = "resume" /\ s.paused
                    ELSE last.resumed,
      prevFrame |-> IF op = "frame" THEN clock ELSE last.prevFrame,
      first     |-> op = "frame" /\ last.resumed,
      gap       |-> IF op = "frame" /\ last.prevFrame # Null
                    THEN clock - last.prevFrame ELSE 0,
      sample    |-> last.sample,
      seen      |-> IF op = "frame" /\ animateResetsPeak(s, clock, clock)
                    THEN NegInf ELSE last.seen,
      interrupted |-> IF op = "frame"
                      THEN /\ s.peakDecaying /\ Gt(s.targetDb, s.peakDb)
                           /\ s.options.showPeak /\ s.peakNeedle
                           /\ ~vu'.hung
                      ELSE FALSE,
      snapped   |-> /\ s.options.ballistics
                    /\ needlePos(s) # Pos(s.targetDb, 0)
                    /\ PosNear(needlePos(s), s.targetDb, Deadband)
                    /\ op = "frame" => ~vu'.hung,
      idleMin   |-> IF op = "frame" /\ animateResetsPeak(s, clock, clock)
                    THEN vu'.options.dbMin ELSE last.idleMin,
      apart     |-> last.apart,
      lead      |-> IF op = "frame" THEN last.lead + 1 ELSE last.lead - 1,
      uneven    |-> last.uneven ]

\* the state after both constructors returned at time 0
Constructed(options, wwwOptions) ==
    /\ vu = construct(options)
    /\ www = wwwConstruct(wwwOptions)
    /\ clock = 0
    /\ last = [op |-> "new", raw |-> 0, amp |-> 0, dt |-> 0, event |-> "none",
               note |-> "none", resumed |-> FALSE, prevFrame |-> Null,
               first |-> FALSE, gap |-> 0, sample |-> "none", seen |-> NegInf,
               interrupted |-> FALSE, snapped |-> FALSE,
               idleMin |-> construct(options).options.dbMin, apart |-> FALSE,
               lead |-> 0, uneven |-> FALSE]

\* the pending frame callbacks become due
Elapse(s) == [s EXCEPT !.due = @ + s.fresh, !.fresh = 0]

\* time passes
Tick(d) ==
    /\ ~vu.hung
    /\ ~www.hung
    /\ clock + d <= MaxClock
    /\ clock' = clock + d
    /\ vu' = Elapse(vu)
    /\ www' = Elapse(www)
    /\ last' = Call("tick", 0)

\* the time instance s took at its last frame, moved back by d
Rebase(s, d) == [s EXCEPT !.lastTime = IF @ = Null THEN Null ELSE @ - d]

\* the hold deadline of the peak tracker moved back by d: 0 says that there
\* is none, and a deadline that has passed stays positive
RebaseHold(s, d) ==
    [s EXCEPT !.peakHoldUntil = IF @ = 0 THEN 0 ELSE IF @ - d < 1 THEN 1 ELSE @ - d]

\* time passes by d in a run without end.  Up to the time end the clock
\* advances.  After it the clock is kept and the times the instances have
\* stored are moved back by d instead: _animate reads them only through
\* timestamp - this._lastTime, now >= this._peakHoldUntil and
\* this._peakHoldUntil > 0, which come out the same.  From then on the
\* frames of vu come at a steady rate (d is the time between the last two)
Pass(d, end) ==
    IF clock <= end THEN Tick(d)
    ELSE /\ ~vu.hung
         /\ ~www.hung
         /\ last.gap \in {0, d}
         /\ vu.rangeSamples = << >>
         /\ \A t \in {vu.lastTime, www.lastTime, last.prevFrame} : t = Null \/ t >= d
         /\ clock' = clock
         /\ vu' = Elapse(RebaseHold(Rebase(vu, d), d))
         /\ www' = Elapse(Rebase(www, d))
         /\ last' = [Call("tick", 0) EXCEPT
                        !.prevFrame = IF @ = Null THEN Null ELSE @ - d]

\* the host runs a due frame callback of vu
Frame ==
    /\ ~vu.hung
    /\ vu.due > 0
    /\ vu' = runFrameCallback(vu, clock, clock)
    /\ last' = Ran("frame", vu, frameDt(vu, clock), vu'.notified)
    /\ UNCHANGED <<www, clock>>

\* meter.setValue(db)
SetValue(db) ==
    /\ ~vu.hung
    /\ vu.options.autoRange => Len(WindowSamples(vu, db, clock)) <= MaxSamples
    /\ vu' = setValue(vu, db, clock)
    /\ last' = Call("setValue", db)
    /\ UNCHANGED <<www, clock>>

\* meter.setAmplitude(amp)
SetAmplitude(amp) ==
    /\ ~vu.hung
    /\ vu.options.autoRange => Len(WindowSamples(vu, 0, clock)) <= MaxSamples
    /\ vu' = setAmplitude(vu, amp, clock)
    /\ last' = [Call("setAmplitude", IF amp <= 0 THEN NegInf ELSE AmpToDb(amp))
                   EXCEPT !.amp = amp]
    /\ UNCHANGED <<www, clock>>

\* meter.setRange(dbMin, dbMax)
SetRange(dbMin, dbMax) ==
    /\ ~vu.hung
    /\ vu' = setRange(vu, dbMin, dbMax)
    /\ last' = Call("setRange", 0)
    /\ UNCHANGED <<www, clock>>

\* meter.resetRange()
ResetRange ==
    /\ ~vu.hung
    /\ vu' = resetRange(vu)
    /\ last' = Call("resetRange", 0)
    /\ UNCHANGED <<www, clock>>

\* meter.setOptions(opts)
SetOptions(opts) ==
    /\ ~vu.hung
    /\ vu' = setOptions(vu, opts)
    /\ last' = Call("setOptions", 0)
    /\ UNCHANGED <<www, clock>>

\* meter.pause()
Pause ==
    /\ ~vu.hung
    /\ vu' = pause(vu)
    /\ last' = Call("pause", 0)
    /\ UNCHANGED <<www, clock>>

\* meter.resume()
Resume ==
    /\ ~vu.hung
    /\ vu' = resume(vu)
    /\ last' = [Call("resume", 0) EXCEPT !.resumed = @ \/ vu.paused]
    /\ UNCHANGED <<www, clock>>

\* meter.destroy()
Destroy ==
    /\ ~vu.hung
    /\ vu' = destroy(vu)
    /\ last' = Call("destroy", 0)
    /\ UNCHANGED <<www, clock>>

\* the host runs a due frame callback of www
WwwFrame ==
    /\ ~www.hung
    /\ www.due > 0
    /\ LET s0 == [www EXCEPT !.due = @ - 1,
                             !.rafId = IF www.rafId = "live" /\ www.fresh = 0 /\ www.due = 1
                                       THEN "stale" ELSE @]
       IN  www' = wwwAnimate(s0, clock)
    /\ last' = Ran("wwwFrame", www, frameDt(www, clock), www'.notified)
    /\ UNCHANGED <<vu, clock>>

\* wwwMeter.setValue(db)
WwwSetValue(db) ==
    /\ ~www.hung
    /\ www' = wwwSetValue(www, db)
    /\ last' = Call("wwwSetValue", db)
    /\ UNCHANGED <<vu, clock>>

\* wwwMeter.setOptions(opts)
WwwSetOptions(opts) ==
    /\ ~www.hung
    /\ www' = wwwSetOptions(www, opts)
    /\ last' = Call("wwwSetOptions", 0)
    /\ UNCHANGED <<vu, clock>>

\* wwwMeter.destroy()
WwwDestroy ==
    /\ ~www.hung
    /\ www' = destroy(www)
    /\ last' = Call("wwwDestroy", 0)
    /\ UNCHANGED <<vu, clock>>

\* ------------------------------------------------------------------------
\* Spec: the range controller.  Samples, manual ranges and frames, with
\* auto-range on or off; the window is 0 s, so that samples leave it as time
\* passes.
\* ------------------------------------------------------------------------

\* raw dB inputs: silence, below the scale, above the clip threshold
RangeInputs == {NegInf, -24 * Unit, 2 * Unit}

\* manual ranges (min < max): a wide one, and a narrow one below the scale
ManualRanges == {<<-30 * Unit, 6 * Unit>>, <<-30 * Unit, -30 * Unit + 50>>}

\* time steps, in ms
RangeTicks == {50}

Init ==
    \E ar \in BOOLEAN :
        Constructed([autoRange |-> ar, autoRangeWindow |-> 0, ballistics |-> FALSE],
                    << >>)

Next ==
    \/ \E d \in RangeTicks : Tick(d)
    \/ Frame
    \/ \E db \in RangeInputs : SetValue(db)
    \/ \E r \in ManualRanges : SetRange(r[1], r[2])
    \/ ResetRange

Spec == Init /\ [][Next]_vars

\* the raw values of the samples in the auto-range window
SampleDbs == [i \in 1..Len(vu.rangeSamples) |-> vu.rangeSamples[i].db]

\* the last step was a public call that returned, or a frame
AfterCallOrFrame ==
    /\ ~vu.hung
    /\ last.op \in {"frame", "setValue", "setAmplitude", "setRange", "resetRange",
                    "setOptions"}

\* C2: displayMin < displayMax in every reachable state.
C2_BoundsOrdered == Lt(vu.options.dbMin, vu.options.dbMax)

\* C3: after every public call and every frame, targetValue lies in
\* [displayMin, displayMax + 1] and currentValue in [displayMin, displayMax + 0.5].
C3_ValuesWithinBounds ==
    AfterCallOrFrame =>
        /\ Le(vu.options.dbMin, vu.targetDb)
        /\ Le(vu.targetDb, Plus(vu.options.dbMax, TargetOver))
        /\ PosGe(needlePos(vu), vu.options.dbMin)
        /\ PosLe(needlePos(vu), Plus(vu.options.dbMax, NeedleOver))

\* C6: with auto-range enabled, when setValue(raw) has returned the scale
\* contains every sample of the window, raw included, with the margin:
\* displayMin <= observedMin - margin and displayMax >= observedMax + margin.
C6_ExpansionImmediate ==
    (last.op = "setValue" /\ vu.options.autoRange /\ ~vu.hung) =>
        /\ Len(vu.rangeSamples) > 0
        /\ vu.rangeSamples[Len(vu.rangeSamples)].db = last.raw
        /\ Le(vu.options.dbMin, Minus(SeqMin(SampleDbs), vu.options.autoRangeMargin))
        /\ Ge(vu.options.dbMax, Plus(SeqMax(SampleDbs), vu.options.autoRangeMargin))

\* C6 witness: setValue(raw) with raw below displayMin - margin has returned
\* and displayMin is the new lower bound
C6_Witness ==
    /\ last.op = "setValue" /\ vu.options.autoRange /\ ~vu.hung
    /\ Lt(last.raw, Minus(vu.initDbMin, vu.options.autoRangeMargin))
    /\ vu.options.dbMin = Minus(last.raw, vu.options.autoRangeMargin)

\* C7: with auto-range enabled a frame uses dt <= 100 ms, raises displayMin
\* by at most dt/1000 dB and lowers displayMax by at most dt/1000 dB, moves
\* neither past its contraction target and never widens the range; setValue
\* never narrows the range.
C7_ContractionRateLimited ==
    [][ /\ (last'.op = "frame" /\ vu.options.autoRange /\ ~vu'.hung) =>
              /\ last'.dt <= DtCap
              /\ vu'.options.dbMin >= vu.options.dbMin
              /\ vu'.options.dbMin - vu.options.dbMin <= last'.dt
              /\ vu'.options.dbMax <= vu.options.dbMax
              /\ vu.options.dbMax - vu'.options.dbMax <= last'.dt
              /\ (vu'.options.dbMin # vu.options.dbMin
                    => Le(vu'.options.dbMin, vu.autoRangeTargetMin))
              /\ (vu'.options.dbMax # vu.options.dbMax
                    => Ge(vu'.options.dbMax, vu.autoRangeTargetMax))
        /\ (last'.op = "setValue" /\ ~vu'.hung) =>
              /\ vu'.options.dbMin <= vu.options.dbMin
              /\ vu'.options.dbMax >= vu.options.dbMax
      ]_vars

\* C7 witness: a frame with the capped dt has moved displayMin off the bound
\* the scale was last rebuilt for, toward a contraction target above it
C7_Witness ==
    /\ last.op = "frame" /\ last.dt = DtCap
    /\ vu.options.autoRange /\ ~vu.hung
    /\ Gt(vu.options.dbMin, vu.lastRebuiltDbMin)
    /\ Le(vu.options.dbMin, vu.autoRangeTargetMin)

\* ------------------------------------------------------------------------
\* SpecMap: the Range Mapper.  setValue and setAmplitude over raw inputs on
\* both sides of every noise floor, with the noise floor below, at, inside
\* and above the scale.
\* ------------------------------------------------------------------------

\* raw dB inputs
MapInputs == {NegInf, -30 * Unit, -20 * Unit, -10 * Unit, -8500, 0, 3 * Unit, 8 * Unit,
              10 * Unit}

\* amplitudes, in 1/Unit: 0, 0.1, 0.5, 1.5
MapAmps == {0, Unit \div 10, Unit \div 2, 3 * (Unit \div 2)}

\* noise floors: below dbMin, dbMin, inside the scale, dbMax, above dbMax
MapFloors == {-30 * Unit, -20 * Unit, -10 * Unit, 3 * Unit, 8 * Unit}

InitMap ==
    \E ar \in BOOLEAN :
        Constructed([autoRange |-> ar, autoRangeWindow |-> 0], << >>)

NextMap ==
    \/ \E db \in MapInputs : SetValue(db)
    \/ \E amp \in MapAmps : SetAmplitude(amp)
    \/ \E nf \in MapFloors : SetOptions([noiseFloor |-> nf])

SpecMap == InitMap /\ [][NextMap]_vars

\* C4: silence pinning.  When setValue(rawDb) or setAmplitude has returned and
\* rawDb <= noiseFloor (negative infinity included), targetValue is exactly
\* the displayMin in force.
C4_SilencePinned ==
    (/\ last.op \in {"setValue", "setAmplitude"}
     /\ ~vu.hung
     /\ Le(last.raw, vu.options.noiseFloor)) => vu.targetDb = vu.options.dbMin

\* C4 witness: with auto-range on, a raw value at or below the noise floor
\* has expanded the scale and the target sits on the new displayMin
C4_Witness ==
    /\ last.op = "setValue" /\ ~vu.hung /\ vu.options.autoRange
    /\ Le(last.raw, vu.options.noiseFloor)
    /\ Lt(vu.options.dbMin, vu.initDbMin)
    /\ vu.targetDb = vu.options.dbMin

\* C5: mapping monotonicity.  With auto-range off, displayMin < displayMax
\* and noiseFloor other than displayMax, two setValue calls in a row with
\* raw inputs a <= b produce targets ta <= tb.
C5_MappingMonotone ==
    [][ (/\ last.op = "setValue" /\ last'.op = "setValue"
         /\ ~vu.options.autoRange
         /\ Lt(vu.options.dbMin, vu.options.dbMax)
         /\ vu.options.noiseFloor # vu.options.dbMax
         /\ Le(last.raw, last'.raw)) => Le(vu.targetDb, vu'.targetDb)
      ]_vars

\* C5 witness: an interpolated target, strictly inside the scale, for a
\* noise floor strictly inside the scale
C5_Witness ==
    /\ last.op = "setValue" /\ ~vu.options.autoRange
    /\ Lt(vu.options.dbMin, vu.options.noiseFloor)
    /\ Lt(vu.options.noiseFloor, vu.options.dbMax)
    /\ Lt(vu.options.dbMin, vu.targetDb)
    /\ Lt(vu.targetDb, vu.options.dbMax)

\* ------------------------------------------------------------------------
\* SpecClip: the clip detector of src/src/vumeter.js.  Samples on both sides
\* of the thresholds, changes of clipThreshold, and frames, with and without
\* ballistics; both callbacks are functions.
\* ------------------------------------------------------------------------

\* raw dB inputs: far below, between the two thresholds, above both
ClipInputs == {-10 * Unit, Unit, 3 * Unit}

\* the values of clipThreshold set while the meter runs
ClipThresholds == {0, 2 * Unit}

\* the times between frames, in ms
ClipTicks == {50}

InitClip ==
    \E b \in BOOLEAN :
        Constructed([ballistics |-> b, onClip |-> "noop", onClipRelease |-> "noop"],
                    << >>)

NextClip ==
    \/ \E d \in ClipTicks : Tick(d)
    \/ Frame
    \/ \E db \in ClipInputs : SetValue(db)
    \/ \E th \in ClipThresholds : SetOptions([clipThreshold |-> th])

SpecClip == InitClip /\ [][NextClip]_vars

\* C8: clip notifications alternate.  A frame calls onClip exactly when the
\* displayed value it computed is strictly above clipThreshold and the
\* notification before it was not onClip, and calls onClipRelease exactly
\* when the displayed value is at or below clipThreshold and the notification
\* before it was onClip; so the sequence starts with onClip, alternates, and
\* frames on which the comparison is unchanged notify nothing.
C8_ClipAlternates ==
    [][ last'.op = "frame" =>
          LET above == PosGt(needlePos(vu'), vu'.options.clipThreshold) IN
          /\ (last'.event = "clip")    = (above /\ last.note # "clip")
          /\ (last'.event = "release") = (~above /\ last.note = "clip")
      ]_vars

\* C8 witness: a frame has called onClipRelease, which follows an onClip
C8_Witness ==
    /\ last.op = "frame" /\ last.event = "release"
    /\ PosLe(needlePos(vu), vu.options.clipThreshold)

\* C9: threshold in force.  After a frame of either copy of the class, with
\* both callbacks supplied, the latest notification is onClip exactly when
\* the displayed value is strictly above the clipThreshold option in force.
C9_ThresholdInForce ==
    /\ last.op = "frame" =>
           (last.note = "clip") = PosGt(needlePos(vu), vu.options.clipThreshold)
    /\ (last.op = "wwwFrame" /\ "clipThreshold" \in DOMAIN www.options) =>
           (last.note = "clip") = PosGt(needlePos(www), www.options.clipThreshold)

\* ------------------------------------------------------------------------
\* SpecWww: the clip detector of src/www/VUMeter.js, the copy the README
\* installs, without ballistics; both callbacks are functions.
\* ------------------------------------------------------------------------

InitWww ==
    Constructed(<< >>,
                [ballistics |-> FALSE, onClip |-> "noop", onClipRelease |-> "noop"])

NextWww ==
    \/ \E d \in ClipTicks : Tick(d)
    \/ WwwFrame
    \/ \E db \in ClipInputs : WwwSetValue(db)
    \/ \E th \in ClipThresholds : WwwSetOptions([clipThreshold |-> th])
    \/ WwwDestroy

SpecWww == InitWww /\ [][NextWww]_vars

\* ------------------------------------------------------------------------
\* SpecLife: the life cycle.  Samples, frames, pause(), resume() and
\* destroy(), called from outside and from inside the clip callbacks, with
\* auto-range and the peak needle on.
\* ------------------------------------------------------------------------

\* raw dB inputs: below the scale, above the clip threshold
LifeInputs == {-24 * Unit, 2 * Unit}

\* the times between frames, in ms
LifeTicks == {50}

\* the peak hold time of the instance, in ms
LifeHoldTime == 100

\* the instances: every kind of clip callback on a fixed scale without
\* ballistics, and plain callbacks with ballistics and auto-range
LifeSetups ==
    {[ballistics |-> FALSE, autoRange |-> FALSE, onClip |-> k, onClipRelease |-> k] :
        k \in CallbackKinds \ {"null"}}
    \cup {[ballistics |-> TRUE, autoRange |-> TRUE, onClip |-> "noop", onClipRelease |-> "noop"]}

InitLife ==
    \E o \in LifeSetups :
        Constructed([ballistics |-> o.ballistics, autoRange |-> o.autoRange,
                     onClip |-> o.onClip, onClipRelease |-> o.onClipRelease,
                     autoRangeWindow |-> 0,
                     showPeak |-> TRUE, peakHoldTime |-> LifeHoldTime],
                    << >>)

NextLife ==
    \/ \E d \in LifeTicks : Tick(d)
    \/ Frame
    \/ \E db \in LifeInputs : SetValue(db)
    \/ Pause
    \/ Resume
    \/ Destroy

SpecLife == InitLife /\ [][NextLife]_vars

\* C1: destroy cancels the loop.  Once destroy() has returned, whether it was
\* called between frames or from a clip callback of the running frame, and
\* whatever is called afterwards, no frame callback is pending.
C1_NoFrameAfterDestroy == ~vu.svg => vu.due + vu.fresh = 0

\* C10: resume discards the time baseline.  The first frame after a resume()
\* that restarted the loop uses dt = 0: the bounds stay, the main needle
\* stays unless it jumps or snaps to its target, the peak needle stays unless
\* it completes a decay; every other frame that has a frame before it uses
\* dt = min(time since that frame, 100 ms).
C10_ResumeFrameDt ==
    [][ last'.op = "frame" =>
          /\ last'.first =>
                /\ last'.dt = 0
                /\ vu'.options.dbMin = vu.options.dbMin
                /\ vu'.options.dbMax = vu.options.dbMax
                /\ \/ needlePos(vu') = needlePos(vu)
                   \/ needlePos(vu') = Pos(Clamp(vu.options.dbMin,
                                                 Plus(vu.options.dbMax, NeedleOver),
                                                 vu.targetDb), 0)
                /\ \/ peakPos(vu') = peakPos(vu)
                   \/ /\ peakPos(vu') = Pos(vu.options.dbMin, 0)
                      /\ PosLe(peakPos(vu), Plus(vu.options.dbMin, PeakEps))
          /\ (~last'.first /\ last.prevFrame # Null) =>
                last'.dt = (IF last'.gap < DtCap THEN last'.gap ELSE DtCap)
      ]_vars

\* C10 witness: the first frame after a resume() has run with dt = 0, more
\* than 100 ms after the frame before it
C10_Witness ==
    /\ last.op = "frame" /\ last.first
    /\ last.gap > DtCap
    /\ last.dt = 0

\* ------------------------------------------------------------------------
\* SpecPeak: the peak hold tracker.  Samples, a manual range and frames with
\* the peak needle on, without ballistics and auto-range; the hold and decay
\* times are short, so that a peak is held, decays and is reset within the
\* time the model runs to.
\* ------------------------------------------------------------------------

\* raw dB inputs: above the clip threshold, inside the scale, silence
PeakInputs == {2 * Unit, -10 * Unit, NegInf}

\* a manual range above the initial displayMin
PeakRanges == {<<-10 * Unit, 0>>}

\* the times between frames, in ms
PeakTicks == {50}

\* the peak hold time of the instance, in ms
PeakHoldTime == 50

\* the peak decay time constant of the instance, in ms
PeakDecayTime == 10

InitPeak ==
    Constructed([ballistics |-> FALSE, showPeak |-> TRUE,
                 peakHoldTime |-> PeakHoldTime, peakDecayTime |-> PeakDecayTime],
                << >>)

NextPeak ==
    \/ \E d \in PeakTicks : Tick(d)
    \/ Frame
    \/ \E db \in PeakInputs : SetValue(db)
    \/ \E r \in PeakRanges : SetRange(r[1], r[2])

SpecPeak == InitPeak /\ [][NextPeak]_vars

\* C11: setRange postconditions.  When setRange(min, max) has returned,
\* displayMin = min and displayMax = max, the scale is drawn for them, and
\* targetValue, currentValue, the held peak and the visual peak lie within
\* [min, max].
C11_SetRangeClamps ==
    (last.op = "setRange" /\ ~vu.hung) =>
        /\ vu.scaleDbMin = vu.options.dbMin /\ vu.scaleDbMax = vu.options.dbMax
        /\ \A x \in {Pos(vu.targetDb, 0), needlePos(vu),
                      Pos(vu.peakDb, 0), peakPos(vu)} :
              PosGe(x, vu.options.dbMin) /\ PosLe(x, vu.options.dbMax)

\* ------------------------------------------------------------------------
\* SpecReset: resetRange() after samples, manual ranges, changed options and
\* frames, with auto-range on or off.
\* ------------------------------------------------------------------------

\* the options set by setOptions: new bounds, and a label, which redraws the
\* scale
ResetOptions == {[dbMin |-> -25 * Unit, dbMax |-> 5 * Unit], [label |-> "VU"]}

InitReset ==
    \E ar \in BOOLEAN :
        Constructed([autoRange |-> ar, autoRangeWindow |-> 0, ballistics |-> FALSE],
                    << >>)

NextReset ==
    \/ \E d \in RangeTicks : Tick(d)
    \/ Frame
    \/ \E db \in RangeInputs : SetValue(db)
    \/ \E r \in ManualRanges : SetRange(r[1], r[2])
    \/ \E o \in ResetOptions : SetOptions(o)
    \/ ResetRange

SpecReset == InitReset /\ [][NextReset]_vars

\* C12: resetRange postconditions.  When resetRange() has returned, the
\* sample history is empty, displayMin, displayMax and the contraction
\* targets are the bounds supplied at construction, and the scale is drawn
\* for those bounds.
C12_ResetRestores ==
    (last.op = "resetRange" /\ ~vu.hung) =>
        /\ vu.rangeSamples = << >>
        /\ vu.options.dbMin = DEFAULTS.dbMin /\ vu.options.dbMax = DEFAULTS.dbMax
        /\ vu.autoRangeTargetMin = DEFAULTS.dbMin
        /\ vu.autoRangeTargetMax = DEFAULTS.dbMax
        /\ vu.scaleDbMin = DEFAULTS.dbMin /\ vu.scaleDbMax = DEFAULTS.dbMax

\* C12 witness: resetRange() has restored the bounds after an auto-range
\* expansion, whose target is still below them
C12_Witness ==
    /\ last.op = "resetRange" /\ ~vu.hung /\ vu.options.autoRange
    /\ Lt(vu.targetDb, vu.options.dbMin)
    /\ vu.options.dbMin = DEFAULTS.dbMin

\* ------------------------------------------------------------------------
\* Rejected configurations and samples (checked under SpecMap and SpecBad)
\* ------------------------------------------------------------------------

\* C13: zero denominator rejected.  A configuration with displayMax =
\* noiseFloor is rejected when it is made, so no setValue or setAmplitude
\* call evaluates the mapping (raw above the noise floor) with displayMax =
\* noiseFloor in force.
C13_ZeroDenominatorRejected ==
    last.op \in {"setValue", "setAmplitude"} =>
        ~(vu.options.noiseFloor = vu.options.dbMax
          /\ Gt(last.raw, vu.options.noiseFloor))

\* SpecBad: calls with arguments the interface declares invalid, mixed with
\* valid ones and frames, with and without ballistics.

\* raw inputs: a non-number, and two valid values
BadInputs == {NaN, -10 * Unit, 2 * Unit}

\* manual ranges: empty, reversed, and a valid one
BadRanges == {<<0, 0>>, <<3 * Unit, -20 * Unit>>, <<-30 * Unit, 6 * Unit>>}

\* options for setOptions: displayMin above displayMax, and a valid change
BadOptions == {[dbMin |-> 5 * Unit], [attackTime |-> 100]}

\* the times between frames, in ms
BadTicks == {50}

InitBad ==
    \E b \in BOOLEAN : Constructed([ballistics |-> b], << >>)

NextBad ==
    \/ \E d \in BadTicks : Tick(d)
    \/ Frame
    \/ \E db \in BadInputs : SetValue(db)
    \/ \E r \in BadRanges : SetRange(r[1], r[2])
    \/ \E o \in BadOptions : SetOptions(o)

SpecBad == InitBad /\ [][NextBad]_vars

\* C14: invalid bounds rejected.  A setRange or setOptions call whose bounds
\* would give displayMax <= displayMin, or a bound that is not finite, fails
\* and changes nothing: called with displayMin < displayMax, both finite, it
\* leaves displayMin < displayMax, both finite.
C14_BadBoundsRejected ==
    [][ (/\ last'.op \in {"setRange", "setOptions"}
         /\ IsFinite(vu.options.dbMin) /\ IsFinite(vu.options.dbMax)
         /\ Lt(vu.options.dbMin, vu.options.dbMax))
        => /\ IsFinite(vu'.options.dbMin) /\ IsFinite(vu'.options.dbMax)
           /\ Lt(vu'.options.dbMin, vu'.options.dbMax)
      ]_vars

\* C15: invalid samples rejected.  setValue with a non-numeric input fails
\* and changes nothing, so targetValue and currentValue are never NaN.
C15_NoNaNValue == vu.targetDb # NaN /\ vu.currentDb # NaN

\* ------------------------------------------------------------------------
\* SpecNeedle: the main needle.  The host runs the frame callback on every
\* display frame (time passes only when no callback is due), samples arrive
\* until InputEnd and the attack and release times are short, so that the
\* needle settles within the time the model runs to.
\* ------------------------------------------------------------------------

\* raw dB inputs: inside the scale, between displayMax and displayMax + 0.5,
\* above displayMax + 0.5
NeedleInputs == {-10 * Unit, 3 * Unit + 200, 4 * Unit}

\* amplitudes (scaled by Unit): silence, 0.5, 1.6
NeedleAmps == {0, Unit \div 2, 8 * (Unit \div 5)}

\* the times between frames, in ms
NeedleTicks == {50}

\* the attack and release time of the instance, in ms
NeedleTau == 10

\* the time of the last sample, in ms
InputEnd == 50

InitNeedle ==
    \E b \in BOOLEAN :
        Constructed([ballistics |-> b, attackTime |-> NeedleTau, releaseTime |-> NeedleTau],
                    << >>)

\* time passes once the due frame callback has run
NeedleTick == \E d \in NeedleTicks : vu.due = 0 /\ Tick(d)

\* a sample arrives
NeedleInput ==
    /\ clock <= InputEnd
    /\ \/ \E db \in NeedleInputs : SetValue(db)
       \/ \E amp \in NeedleAmps : SetAmplitude(amp)

NextNeedle == NeedleTick \/ Frame \/ NeedleInput

\* a frame callback is due: the guard of Frame, which changes vu whenever
\* it is taken
FrameDue == ~vu.hung /\ vu.due > 0

\* the host keeps displaying frames: weak fairness of NeedleTick, and weak
\* fairness of Frame with ENABLED <<Frame>>_vars written out as FrameDue
SpecNeedle ==
    /\ InitNeedle /\ [][NextNeedle]_vars
    /\ WF_vars(NeedleTick)
    /\ ([]<>~FrameDue \/ []<><<Frame>>_vars)

\* C16 as stated: with ballistics disabled, after every frame getValue()
\* equals targetValue, for every target in [displayMin, displayMax + 1].
C16_NeedleEqualsTarget ==
    (last.op = "frame" /\ ~vu.options.ballistics) =>
        getValue(vu) = Pos(vu.targetDb, 0)

\* targetValue pinned to [displayMin, displayMax + 0.5]
PinnedTarget ==
    IF Lt(vu.targetDb, vu.options.dbMin) THEN vu.options.dbMin
    ELSE IF Gt(vu.targetDb, Plus(vu.options.dbMax, NeedleOver))
    THEN Plus(vu.options.dbMax, NeedleOver)
    ELSE vu.targetDb

\* C16 amended: with ballistics disabled, after every frame getValue()
\* equals targetValue pinned to [displayMin, displayMax + 0.5]: the target
\* itself up to displayMax + 0.5, and displayMax + 0.5 above it.
C16_NeedleEqualsPinnedTarget ==
    (last.op = "frame" /\ ~vu.options.ballistics) =>
        getValue(vu) = Pos(PinnedTarget, 0)

\* C16 witness: without ballistics a frame has put the needle on a target
\* between displayMax and displayMax + 0.5
C16_Witness ==
    /\ last.op = "frame" /\ ~vu.options.ballistics
    /\ Gt(vu.targetDb, vu.options.dbMax)
    /\ getValue(vu) = Pos(vu.targetDb, 0)

\* ------------------------------------------------------------------------
\* SpecSettle: the main needle with the default attack and release times
\* (300 ms), display frames without end, and samples that arrive until
\* SettleInputEnd.  The clock advances until it has passed SettleInputEnd;
\* the frames after that run with the stored times moved back (Pass).
\* ------------------------------------------------------------------------

\* the times between two display frames, in ms: a 60 Hz display, and a
\* throttled one at the cap of dt
FrameTimes == {16, DtCap}

\* raw dB inputs: just above displayMin, between displayMax and
\* displayMax + 0.5, above displayMax + 0.5
SettleInputs == {-20 * Unit + 500, 3 * Unit + 200, 4 * Unit}

\* amplitudes (scaled by Unit): silence, 0.5, 2
SettleAmps == {0, Unit \div 2, 2 * Unit}

\* the time of the last sample, in ms
SettleInputEnd == 48

\* the attack and release times of the instance, in ms: the defaults, and a
\* fast attack with a slow release
SettleTimes == {<<DEFAULTS.attackTime, DEFAULTS.releaseTime>>, <<100, 600>>}

InitSettle ==
    \E b \in BOOLEAN, tau \in SettleTimes :
        Constructed([ballistics |-> b, attackTime |-> tau[1], releaseTime |-> tau[2]],
                    << >>)

\* time passes once the due frame callback has run
SettleTick == \E d \in FrameTimes : vu.due = 0 /\ Pass(d, SettleInputEnd)

\* a sample arrives
SettleInput ==
    /\ clock <= SettleInputEnd
    /\ \/ \E db \in SettleInputs : SetValue(db)
       \/ \E amp \in SettleAmps : SetAmplitude(amp)

NextSettle == SettleTick \/ Frame \/ SettleInput

\* the host keeps displaying frames: weak fairness of SettleTick, and weak
\* fairness of Frame with ENABLED <<Frame>>_vars written out as FrameDue
SpecSettle ==
    /\ InitSettle /\ [][NextSettle]_vars
    /\ WF_vars(SettleTick)
    /\ ([]<>~FrameDue \/ []<><<Frame>>_vars)

\* getValue() is within the deadband of targetValue
Settled == PosNear(getValue(vu), vu.targetDb, Deadband)

\* getValue() is within the deadband of the pinned targetValue
SettledPinned == PosNear(getValue(vu), PinnedTarget, Deadband)

\* 20 * log10(amp) to 0.001 dB for the amplitudes of SettleAmps, from
\* 20 * log10(2) = 6.0206; -Infinity for amp <= 0
DecibelsOf(amp) ==
    CASE amp <= 0           -> NegInf
      [] amp = Unit \div 2  -> -6021
      [] amp = 2 * Unit     -> 6021

\* setAmplitude(amp) leaves the meter in the state of setValue(20 * log10(amp))
AmplitudeAsValue ==
    [][last'.op = "setAmplitude" =>
          vu' = setValue(vu, DecibelsOf(last'.amp), clock)]_vars

\* C17 as stated: setAmplitude(amp) leaves the meter in the state of
\* setValue(20 * log10(amp)) (of setValue(-Infinity) for amp <= 0), and
\* unless a setValue call follows, getValue() is eventually within the 0.005
\* deadband of that target.
C17_AmplitudeSettles ==
    /\ AmplitudeAsValue
    /\ (last.sample = "setAmplitude") ~> (Settled \/ last.sample = "setValue")

\* C17 amended: setAmplitude(amp) leaves the meter in the state of
\* setValue(20 * log10(amp)) (of setValue(-Infinity) for amp <= 0), and
\* unless a setValue call follows, getValue() is eventually within the
\* deadband of that target pinned to [displayMin, displayMax + 0.5].
C17_AmplitudeSettlesPinned ==
    /\ AmplitudeAsValue
    /\ (last.sample = "setAmplitude") ~> (SettledPinned \/ last.sample = "setValue")

\* C17 witness: with ballistics on, after setAmplitude(0.5) frames with the
\* default attack time have brought the needle from displayMin onto
\* 20 * log10(0.5) = -6.021
C17_Witness ==
    /\ last.op = "frame" /\ last.sample = "setAmplitude" /\ vu.options.ballistics
    /\ vu.options.attackTime = DEFAULTS.attackTime
    /\ last.dt > 0 /\ last.snapped
    /\ vu.targetDb = DecibelsOf(Unit \div 2)
    /\ getValue(vu) = Pos(vu.targetDb, 0)

\* ------------------------------------------------------------------------
\* SpecExample: the worked example of the README, on the default
\* configuration (dbMin -20, dbMax 3, noiseFloor -20, auto-range off), with
\* frames.
\* ------------------------------------------------------------------------

\* the raw inputs of the example: -60, -20, -8.5, 0 and +3 dB
ExampleInputs == {-60 * Unit, -20 * Unit, -8500, 0, 3 * Unit}

\* the times between frames, in ms
ExampleTicks == {50}

\* the example's rounding: "approximately" is to the 0.01 dB shown
ExampleTolerance == 5

InitExample == Constructed(<< >>, << >>)

NextExample ==
    \/ \E d \in ExampleTicks : vu.due = 0 /\ Tick(d)
    \/ Frame
    \/ \E db \in ExampleInputs : SetValue(db)

SpecExample == InitExample /\ [][NextExample]_vars

\* C18 as stated: on the default configuration setValue(-60) yields target
\* -20 and setValue(-8.5) yields target approximately -10.07.
C18_WorkedExample ==
    last.op = "setValue" =>
        /\ last.raw = -60 * Unit => vu.targetDb = -20 * Unit
        /\ last.raw = -8500 =>
              Le(MathAbs(Minus(vu.targetDb, -10070)), ExampleTolerance)

\* C18 amended: on the default configuration setValue(-60) yields target -20
\* and setValue(-8.5) yields target -8.5, the mapping being the identity
\* above the noise floor when noiseFloor = displayMin.
C18_WorkedExampleIdentity ==
    last.op = "setValue" =>
        /\ last.raw = -60 * Unit => vu.targetDb = -20 * Unit
        /\ last.raw = -8500 => vu.targetDb = -8500

\* C18 witness: setValue(-8.5) has returned on the default configuration
C18_Witness ==
    /\ last.op = "setValue" /\ last.raw = -8500
    /\ vu.options.noiseFloor = -20 * Unit /\ vu.options.dbMin = -20 * Unit
    /\ vu.options.dbMax = 3 * Unit /\ ~vu.options.autoRange
    /\ vu.targetDb = -8500

\* ------------------------------------------------------------------------
\* SpecDecay: the peak hold tracker while the host keeps displaying frames
\* (time passes only when no callback is due) and samples arrive until
\* DecayInputEnd.
\* ------------------------------------------------------------------------

\* the time between two display frames
DecayTicks == {25}

\* samples arrive until this time
DecayInputEnd == 0

\* time passes once the due frame callback has run
PeakTick == \E d \in DecayTicks : vu.due = 0 /\ Tick(d)

\* a sample arrives
PeakInput == clock <= DecayInputEnd /\ \E db \in PeakInputs : SetValue(db)

NextDecay == PeakTick \/ Frame \/ PeakInput

\* weak fairness of PeakTick, and weak fairness of Frame with
\* ENABLED <<Frame>>_vars written out as FrameDue
SpecDecay ==
    /\ InitPeak /\ [][NextDecay]_vars
    /\ WF_vars(PeakTick)
    /\ ([]<>~FrameDue \/ []<><<Frame>>_vars)

\* the peak tracker is idle
PeakIdle ==
    /\ vu.peakDb = vu.options.dbMin /\ peakPos(vu) = Pos(vu.options.dbMin, 0)
    /\ ~vu.peakDecaying /\ vu.peakHoldUntil = 0

\* C20: the held peak is monotone within a hold.  Immediately after a frame
\* with the peak indicator shown, heldValue is at least every target produced
\* by setValue/setAmplitude since the tracker was last reset to idle (last.seen
\* is the largest of them), including targets replaced before a frame ran.
C20_HeldPeakCoversTargets ==
    (last.op = "frame" /\ vu.options.showPeak) => Ge(vu.peakDb, last.seen)

\* ------------------------------------------------------------------------
\* SpecHold: the peak hold tracker with the default decay and attack times
\* (1500 ms, 50 ms) and the default hold time (2000 ms) or none, display
\* frames without end, and samples that arrive until HoldInputEnd.  The
\* clock advances until it has passed HoldInputEnd; the frames after that
\* run with the stored times moved back (Pass).
\* ------------------------------------------------------------------------

\* the time of the last sample, in ms
HoldInputEnd == 32

InitHold ==
    \E h \in {0, DEFAULTS.peakHoldTime} :
        Constructed([showPeak |-> TRUE, peakHoldTime |-> h], << >>)

\* time passes once the due frame callback has run
HoldTick == \E d \in FrameTimes : vu.due = 0 /\ Pass(d, HoldInputEnd)

\* a sample arrives
HoldInput == clock <= HoldInputEnd /\ \E db \in PeakInputs : SetValue(db)

NextHold == HoldTick \/ Frame \/ HoldInput

\* weak fairness of HoldTick, and weak fairness of Frame with
\* ENABLED <<Frame>>_vars written out as FrameDue
SpecHold ==
    /\ InitHold /\ [][NextHold]_vars
    /\ WF_vars(HoldTick)
    /\ ([]<>~FrameDue \/ []<><<Frame>>_vars)

\* C19: peak decay terminates.  Whenever the tracker holds a peak, at
\* whatever time it was captured, it is eventually reset to idle: heldValue =
\* visualValue = displayMin, decaying = false, holdDeadline = 0.  The reset
\* happens in the frame in which the decaying visualValue reaches
\* displayMin + 0.05 or below: a frame never leaves the tracker decaying at
\* or below that level, and clears the deadline only by that reset.
C19_PeakDecayTerminates ==
    /\ (vu.peakHoldUntil > 0) ~> PeakIdle
    /\ [][last'.op = "frame" =>
            /\ vu'.peakDecaying =>
                  PosGt(peakPos(vu'), Plus(vu'.options.dbMin, PeakEps))
            /\ (vu.peakHoldUntil > 0 /\ vu'.peakHoldUntil = 0) => PeakIdle'
         ]_vars

\* C19 witness: with the default hold and decay times a frame has found the
\* decaying visualValue within 0.05 of displayMin and has reset the tracker
\* to idle, although the target is still above displayMin
C19_Witness ==
    /\ last.op = "frame" /\ PeakIdle
    /\ vu.options.peakHoldTime = DEFAULTS.peakHoldTime
    /\ vu.options.peakDecayTime = DEFAULTS.peakDecayTime
    /\ last.sample = "setValue" /\ last.seen = NegInf
    /\ Gt(vu.targetDb, vu.options.dbMin)

\* ------------------------------------------------------------------------
\* SpecPeakReset: resetRange() while the peak tracker holds or decays a peak.
\* ------------------------------------------------------------------------

NextPeakReset ==
    \/ \E d \in PeakTicks : Tick(d)
    \/ Frame
    \/ \E db \in PeakInputs : SetValue(db)
    \/ ResetRange

SpecPeakReset == InitPeak /\ [][NextPeakReset]_vars

\* C21: resetRange resets the peak.  When resetRange() has returned the peak
\* tracker is idle: heldValue = visualValue = displayMin (the restored
\* construction value), decaying = false and holdDeadline = 0.
C21_ResetRangeIdlesPeak ==
    (last.op = "resetRange" /\ ~vu.hung) =>
        /\ vu.options.dbMin = vu.initDbMin
        /\ PeakIdle

\* ------------------------------------------------------------------------
\* SpecCapture: peak capture.  Samples up to displayMax + 1 and frames, with
\* a hold time of 0 or CaptureHoldTime and a decay that takes several frames
\* for the higher peaks, so that a new peak arrives while another decays.
\* ------------------------------------------------------------------------

\* raw dB inputs: silence, inside the scale, near the top, above the scale
CaptureInputs == {NegInf, -10 * Unit, 2 * Unit, 4 * Unit}

\* the times between frames, in ms
CaptureTicks == {50}

\* the positive peak hold time, in ms
CaptureHoldTime == 50

InitCapture ==
    \E h \in {0, CaptureHoldTime} :
        Constructed([ballistics |-> FALSE, showPeak |-> TRUE,
                     peakHoldTime |-> h, peakDecayTime |-> PeakDecayTime],
                    << >>)

NextCapture ==
    \/ \E d \in CaptureTicks : Tick(d)
    \/ Frame
    \/ \E db \in CaptureInputs : SetValue(db)

SpecCapture == InitCapture /\ [][NextCapture]_vars

\* C22: a new peak is captured in every frame that finds targetValue >
\* heldValue, also while decaying.  With peakHoldMs > 0 the frame ends with
\* heldValue = targetValue, holdDeadline = now + peakHoldMs and decaying =
\* false; with peakHoldMs = 0 the deadline it sets has expired at once, so the
\* frame ends decaying from that peak or with the decay completed.  A frame
\* that does not complete a decay never lowers heldValue.
C22_CaptureInterruptsDecay ==
    [][ (last'.op = "frame" /\ vu.options.showPeak) =>
          /\ (Gt(vu.targetDb, vu.peakDb) /\ vu.options.peakHoldTime > 0) =>
                /\ vu'.peakDb = vu.targetDb
                /\ vu'.peakHoldUntil = clock + vu.options.peakHoldTime
                /\ ~vu'.peakDecaying
          /\ (Gt(vu.targetDb, vu.peakDb) /\ vu.options.peakHoldTime = 0) =>
                \/ /\ vu'.peakDb = vu.targetDb
                   /\ vu'.peakHoldUntil = clock
                   /\ vu'.peakDecaying
                \/ PeakIdle'
          /\ ~(vu'.peakHoldUntil = 0 /\ vu.peakHoldUntil > 0) =>
                Ge(vu'.peakDb, vu.peakDb)
      ]_vars

\* C22 witness: a frame that found the tracker decaying and a higher target
\* has captured it and holds it
C22_Witness ==
    /\ last.op = "frame" /\ last.interrupted
    /\ vu.peakDb = vu.targetDb
    /\ vu.peakHoldUntil = clock + vu.options.peakHoldTime
    /\ ~vu.peakDecaying

\* ------------------------------------------------------------------------
\* SpecSnap: the deadband snap of both copies of the class, with ballistics
\* on.  Samples a few thousandths of a dB apart, a target just above
\* displayMax + 0.5, and frames after 0, 50 and 150 ms.
\* ------------------------------------------------------------------------

\* raw dB inputs: just above displayMin, inside the scale and 0.003 below
\* that, just above displayMax + 0.5
SnapInputs == {-20 * Unit + 2, -10 * Unit, -10 * Unit - 3, 3 * Unit + 502}

\* the times between frames, in ms
SnapTicks == {50, 150}

InitSnap ==
    Constructed([attackTime |-> NeedleTau, releaseTime |-> NeedleTau],
                [attackTime |-> NeedleTau, releaseTime |-> NeedleTau])

\* the host runs the callbacks of one display frame in the order they were
\* registered, that of vu before that of www, and no call comes between them
NextSnap ==
    \/ \E d \in SnapTicks : vu.due = 0 /\ www.due = 0 /\ Tick(d)
    \/ Frame
    \/ vu.due = 0 /\ WwwFrame
    \/ \E db \in SnapInputs : vu.due = www.due /\ SetValue(db)
    \/ \E db \in SnapInputs : vu.due = www.due /\ WwwSetValue(db)

SpecSnap == InitSnap /\ [][NextSnap]_vars

\* the target of instance s pinned to [displayMin, displayMax + 0.5]
Pinned(s) ==
    IF Lt(s.targetDb, s.options.dbMin) THEN s.options.dbMin
    ELSE IF Gt(s.targetDb, Plus(s.options.dbMax, NeedleOver))
    THEN Plus(s.options.dbMax, NeedleOver)
    ELSE s.targetDb

\* instance s has ballistics on and its needle within the deadband of the target
InDeadband(s) ==
    s.options.ballistics /\ PosNear(needlePos(s), s.targetDb, Deadband)

\* C23 as stated: with ballistics enabled, a frame that starts with
\* |targetValue - currentValue| < 0.005 ends with getValue() equal to
\* targetValue exactly, in both copies of the class.
C23_DeadbandSnap ==
    [][ /\ (last'.op = "frame" /\ InDeadband(vu)) =>
              getValue(vu') = Pos(vu.targetDb, 0)
        /\ (last'.op = "wwwFrame" /\ InDeadband(www)) =>
              getValue(www') = Pos(www.targetDb, 0)
      ]_vars

\* C23 amended: with ballistics enabled, a frame that starts with
\* |targetValue - currentValue| < 0.005 ends with getValue() equal to
\* targetValue pinned to [displayMin, displayMax + 0.5], in both copies: to
\* targetValue exactly for every target in [displayMin, displayMax + 0.5].
C23_DeadbandSnapPinned ==
    [][ /\ (last'.op = "frame" /\ InDeadband(vu)) =>
              getValue(vu') = Pos(Pinned(vu), 0)
        /\ (last'.op = "wwwFrame" /\ InDeadband(www)) =>
              getValue(www') = Pos(Pinned(www), 0)
      ]_vars

\* C23 witness: a frame found the needle off the target by less than the
\* deadband and has put it on the target, inside the scale
C23_Witness ==
    /\ last.op = "frame" /\ last.snapped /\ last.dt > 0
    /\ getValue(vu) = Pos(vu.targetDb, 0)
    /\ Lt(vu.targetDb, vu.options.dbMax)

\* ------------------------------------------------------------------------
\* Ballistics convergence (checked under SpecSettle)
\* ------------------------------------------------------------------------

\* the distance of the needle of s from x, in 1/FScale of a unit
Off(s, x) ==
    IF IsFinite(x) /\ IsFinite(s.currentDb)
    THEN LET d == (x - s.currentDb) * FScale - s.currentFrac
         IN  IF d < 0 THEN 0 - d ELSE d
    ELSE MathAbs(Minus(x, s.currentDb))

\* C24 as stated: with ballistics enabled and dt > 0, every frame that starts
\* with |currentValue - targetValue| >= 0.005 strictly decreases it, no frame
\* moves the needle past the target, a needle on the target stays there, and
\* from some frame on currentValue equals targetValue.
C24_NeedleConverges ==
    /\ [][ (last'.op = "frame" /\ vu.options.ballistics) =>
             /\ (last'.dt > 0 /\ ~InDeadband(vu)) =>
                   Lt(Off(vu', vu.targetDb), Off(vu, vu.targetDb))
             /\ PosLt(needlePos(vu), vu.targetDb) => PosLe(needlePos(vu'), vu.targetDb)
             /\ PosGt(needlePos(vu), vu.targetDb) => PosGe(needlePos(vu'), vu.targetDb)
             /\ needlePos(vu) = Pos(vu.targetDb, 0) =>
                   needlePos(vu') = Pos(vu.targetDb, 0)
         ]_vars
    /\ <>[](vu.options.ballistics => needlePos(vu) = Pos(vu.targetDb, 0))

\* C24 amended: the same with targetValue pinned to [displayMin,
\* displayMax + 0.5].  With ballistics enabled and dt > 0, every frame that
\* starts with the needle off the pinned target strictly decreases its
\* distance from it, no frame moves the needle past the pinned target, a
\* needle on the pinned target stays there, and once the samples have stopped
\* currentValue equals the pinned target from some frame on.
C24_NeedleConvergesPinned ==
    /\ [][ (last'.op = "frame" /\ vu.options.ballistics) =>
             /\ (last'.dt > 0 /\ needlePos(vu) # Pos(Pinned(vu), 0)) =>
                   Lt(Off(vu', Pinned(vu)), Off(vu, Pinned(vu)))
             /\ PosLt(needlePos(vu), Pinned(vu)) => PosLe(needlePos(vu'), Pinned(vu))
             /\ PosGt(needlePos(vu), Pinned(vu)) => PosGe(needlePos(vu'), Pinned(vu))
             /\ needlePos(vu) = Pos(Pinned(vu), 0) =>
                   needlePos(vu') = Pos(Pinned(vu), 0)
         ]_vars
    /\ <>[](vu.options.ballistics => needlePos(vu) = Pos(Pinned(vu), 0))

\* C24 witness: with ballistics on and the default attack and release
\* times, frames with dt > 0 have brought the needle to within the deadband
\* of a target inside the scale, and this frame has put it on the target
C24_Witness ==
    /\ last.op = "frame" /\ vu.options.ballistics /\ last.dt > 0
    /\ vu.options.attackTime = DEFAULTS.attackTime
    /\ vu.options.releaseTime = DEFAULTS.releaseTime
    /\ last.snapped
    /\ vu.targetDb = 3 * Unit + 200
    /\ needlePos(vu) = Pos(vu.targetDb, 0)

\* ------------------------------------------------------------------------
\* Scale redraw (checked under SpecReset)
\* ------------------------------------------------------------------------

\* C25: the drawn scale follows the bounds.  After every frame and every
\* public call that can change the bounds (setValue, setRange, resetRange,
\* setOptions), displayMin and displayMax each differ by less than 1 dB from
\* the value the scale was last drawn for.
C25_ScaleFollowsBounds ==
    AfterCallOrFrame =>
        /\ Lt(MathAbs(Minus(vu.options.dbMin, vu.scaleDbMin)), RebuildDrift)
        /\ Lt(MathAbs(Minus(vu.options.dbMax, vu.scaleDbMax)), RebuildDrift)

\* ------------------------------------------------------------------------
\* The frame loop (checked under SpecLife)
\* ------------------------------------------------------------------------

\* C26: one frame loop per instance.  In every reachable state at most one
\* frame callback is pending, and none while the instance is paused, also
\* when pause() and resume() are called from a clip callback during a frame.
C26_OnePendingFrame ==
    /\ vu.due + vu.fresh <= 1
    /\ vu.paused => vu.due + vu.fresh = 0

\* ------------------------------------------------------------------------
\* Silence with auto-range (checked under SpecMap)
\* ------------------------------------------------------------------------

\* C27: the bounds stay finite.  displayMin, displayMax, targetValue and the
\* lower contraction target are finite in every reachable state, also after
\* silence (setAmplitude(0), setValue(-Infinity)) with auto-range enabled.
C27_BoundsStayFinite ==
    /\ IsFinite(vu.options.dbMin) /\ IsFinite(vu.options.dbMax)
    /\ IsFinite(vu.targetDb)
    /\ IsFinite(vu.autoRangeTargetMin)

\* ------------------------------------------------------------------------
\* SpecShown: the displayed value across samples.  Samples above and below
\* the scale and frames without ballistics; auto-range is off at first and
\* is switched on by setOptions while the meter runs.
\* ------------------------------------------------------------------------

\* raw dB inputs: above displayMax + 1, inside the scale, below displayMin
ShownInputs == {4 * Unit, -10 * Unit, -24 * Unit}

\* amplitudes (scaled by Unit): 0.5 and 1.6
ShownAmps == {Unit \div 2, 8 * (Unit \div 5)}

\* the times between frames, in ms
ShownTicks == {50}

InitShown ==
    Constructed([ballistics |-> FALSE, autoRangeWindow |-> 0], << >>)

NextShown ==
    \/ \E d \in ShownTicks : Tick(d)
    \/ Frame
    \/ \E db \in ShownInputs : SetValue(db)
    \/ \E amp \in ShownAmps : SetAmplitude(amp)
    \/ SetOptions([autoRange |-> TRUE])

SpecShown == InitShown /\ [][NextShown]_vars

\* C28: samples do not move the needle.  getValue() returns the same value
\* immediately before and immediately after every setValue and setAmplitude
\* call, with auto-range on or off.
C28_SampleKeepsShownValue ==
    [][ (last'.op \in {"setValue", "setAmplitude"} /\ ~vu'.hung) =>
            getValue(vu') = getValue(vu)
      ]_vars

\* ------------------------------------------------------------------------
\* SpecTracker: the peak state machine.  Samples, a manual range that moves
\* displayMin, and frames, with a hold time of 0 or CaptureHoldTime.
\* ------------------------------------------------------------------------

SpecTracker == InitCapture /\ [][NextPeak]_vars

\* C29: the peak state machine.  In every reachable state, decaying implies
\* that a hold deadline is set and the clock has reached it; no deadline
\* implies not decaying and a held peak equal to the displayMin of the last
\* reset.  The tracker enters decay only in a frame, with the deadline set
\* and reached.
C29_PeakStateMachine ==
    /\ [](vu.peakDecaying => (vu.peakHoldUntil > 0 /\ clock >= vu.peakHoldUntil))
    /\ [](vu.peakHoldUntil = 0 => (~vu.peakDecaying /\ vu.peakDb = last.idleMin))
    /\ [][ (~vu.peakDecaying /\ vu'.peakDecaying) =>
              /\ last'.op = "frame"
              /\ vu'.peakHoldUntil > 0 /\ clock >= vu'.peakHoldUntil
         ]_vars

\* C29 witness: a frame has left the tracker decaying, past its deadline,
\* with the visual peak still above the reset level
C29_Witness ==
    /\ last.op = "frame" /\ vu.peakDecaying
    /\ vu.peakHoldUntil > 0 /\ clock >= vu.peakHoldUntil
    /\ PosGt(peakPos(vu), Plus(vu.options.dbMin, PeakEps))

\* ------------------------------------------------------------------------
\* SpecPair: the two copies of the class side by side.  Both instances are
\* built with the same options (clipThreshold 0, auto-range and peak needle
\* off, both clip callbacks supplied), receive the same calls, and run their
\* frame callbacks in the same display frames.
\* ------------------------------------------------------------------------

\* raw dB inputs: above the scale
PairInputs == {4 * Unit}

\* amplitudes (scaled by Unit): silence, and 1.0, which is 0 dB, the clip
\* threshold
PairAmps == {0, Unit}

\* the options changed while the meters run
PairOptions ==
    { [dbMin |-> -10 * Unit, dbMax |-> 0, noiseFloor |-> -30 * Unit,
       attackTime |-> 2 * NeedleTau, releaseTime |-> 2 * NeedleTau],
      [ballistics |-> FALSE] }

\* the times between frames, in ms
PairTicks == {50}

\* the time the pair runs to, in ms
PairEnd == 150

InitPair ==
    Constructed([onClip |-> "noop", onClipRelease |-> "noop",
                 attackTime |-> NeedleTau, releaseTime |-> NeedleTau],
                [onClip |-> "noop", onClipRelease |-> "noop",
                 attackTime |-> NeedleTau, releaseTime |-> NeedleTau])

\* time passes once the due frame callbacks have run
PairTick ==
    \E d \in PairTicks :
        vu.due = 0 /\ www.due = 0 /\ clock + d <= PairEnd /\ Tick(d)

\* both instances have run the same frames: the host runs the callback of vu
\* and the callback of www one after the other, and in between one of them
\* is a frame ahead
InStep == ~last.uneven /\ last.lead = 0

\* the record of a call made on both instances
PairCall(op, raw) == [Call(op, raw) EXCEPT !.apart = @ \/ ~InStep]

\* setValue(db) on both instances
PairSetValue(db) ==
    /\ ~vu.hung /\ ~www.hung
    /\ vu' = setValue(vu, db, clock)
    /\ www' = wwwSetValue(www, db)
    /\ last' = PairCall("setValue", db)
    /\ UNCHANGED clock

\* setAmplitude(amp) on both instances
PairSetAmplitude(amp) ==
    /\ ~vu.hung /\ ~www.hung
    /\ vu' = setAmplitude(vu, amp, clock)
    /\ www' = wwwSetAmplitude(www, amp)
    /\ last' = [PairCall("setAmplitude", IF amp <= 0 THEN NegInf ELSE AmpToDb(amp))
                   EXCEPT !.amp = amp]
    /\ UNCHANGED clock

\* setOptions(opts) on both instances
PairSetOptions(opts) ==
    /\ ~vu.hung /\ ~www.hung
    /\ vu' = setOptions(vu, opts)
    /\ www' = wwwSetOptions(www, opts)
    /\ last' = PairCall("setOptions", 0)
    /\ UNCHANGED clock

\* pause() on both instances
PairPause ==
    /\ ~vu.hung /\ ~www.hung
    /\ vu' = pause(vu)
    /\ www' = pause(www)
    /\ last' = PairCall("pause", 0)
    /\ UNCHANGED clock

\* resume() on both instances
PairResume ==
    /\ ~vu.hung /\ ~www.hung
    /\ vu' = resume(vu)
    /\ www' = resume(www)
    /\ last' = [PairCall("resume", 0) EXCEPT !.resumed = @ \/ vu.paused]
    /\ UNCHANGED clock

\* the host runs the two frame callbacks as separate steps, in either order,
\* and the application may call the meters between them
NextPair ==
    \/ PairTick
    \/ Frame
    \/ WwwFrame
    \/ \E db \in PairInputs : PairSetValue(db)
    \/ \E amp \in PairAmps : PairSetAmplitude(amp)
    \/ \E o \in PairOptions : PairSetOptions(o)
    \/ PairPause
    \/ PairResume

SpecPair == InitPair /\ [][NextPair]_vars

\* C30: the two copies agree on the shared core.  With clipThreshold = 0,
\* auto-range off and the peak needle off, once both copies have received
\* the same calls and run the same frames in the same order (no call fell
\* between the two callbacks of one display frame, and both callbacks have
\* run) they have the same targetValue and currentValue, the same clip
\* state, sent the same notification in the latest frame, and are paused or
\* running together.
C30_CopiesAgree ==
    (~last.apart /\ InStep) =>
        /\ vu.targetDb = www.targetDb
        /\ getValue(vu) = getValue(www)
        /\ vu.clipping = www.clipping
        /\ vu.notified = www.notified
        /\ vu.paused = www.paused
        /\ vu.due = www.due /\ vu.fresh = www.fresh

\* C30 witness: with ballistics on, a frame of each copy has moved the needle
\* above 0 dB, short of the target, and both have called onClip
C30_Witness ==
    /\ ~last.apart /\ InStep
    /\ last.op \in {"frame", "wwwFrame"} /\ last.dt > 0
    /\ vu.options.ballistics /\ www.options.ballistics
    /\ vu.notified = "clip" /\ www.notified = "clip"
    /\ PosGt(getValue(www), 0) /\ PosLt(getValue(www), www.targetDb)

====
